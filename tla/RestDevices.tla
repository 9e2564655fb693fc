------------------------------ MODULE RestDevices ------------------------------
(***************************************************************************)
(* The FRU page and the services page: what they set is kept in memory by  *)
(* KETI-Edge and written to files, a whole structure at a time.            *)
(*                                                                         *)
(* The page sends its commands one after the other; each is handled in a   *)
(* thread of its own (RestQueue and RestPages have queue and answers).  A  *)
(* command of a page whose web server died goes on, and the next page runs *)
(* beside it.  fopen "w" empties a file and fwrite copies the structure    *)
(* before fclose writes it out.                                            *)
(***************************************************************************)
EXTENDS ServiceBounds, Sequences, SequencesExt

VARIABLES
    edge,      \* TRUE while KETI-Edge runs
    page,      \* commands of the page that are not answered
    busy,      \* TRUE: the first of them was sent
    jobs,      \* threads that handle a command
    setting,   \* g_setting: what the services page displays
    mem,       \* the FRU device and the structures of the services
    files,     \* contents of their files
    sets,      \* pages so far: the value they set
    deaths,    \* deaths of the web server and of KETI-Edge
    written,   \* history: files written since KETI-Edge started
    crossed,   \* history: two commands overlapped since then
    forgotten  \* history: what a display put back in mem and not in g_setting

vars == <<edge, page, busy, jobs, setting, mem, files, sets, deaths, written, crossed, forgotten>>

\* A page's value, or 0: the default of the code, and services enabled.
Disabled == MaxSets + 1

FruFields == {"header", "date", "board", "product", "chassis"}
SettingFields == {"web", "sshOn", "ssh", "alertOn", "alert", "kvm", "proxy"}

Defaults(fields) == [x \in fields |-> 0]

\* The structure each file holds; alert_port.bin gets the one of ssh.
FieldsOf(f) ==
    CASE f = "board" -> {"date", "board"}
      [] f \in {"header", "product", "chassis", "web"} -> {f}
      [] f \in {"ssh", "alert"} -> {"sshOn", "ssh"}
      [] f = "kvm"     -> {"kvm", "proxy"}

FruFiles == <<"header", "board", "product", "chassis">>
SettingFiles == {"web", "ssh", "alert", "kvm"}

Absent == [x \in {} |-> 0]
Empty  == [x \in {"truncated"} |-> 0]

Command(c, v) == [cmd |-> c, value |-> v]

-----------------------------------------------------------------------------
(* The pages.                                                              *)

\* handle_fru_call sends all four commands, with what the user changed.
FruPages(v) ==
    {[i \in 1 .. 4 |-> Command(FruFiles[i], IF FruFiles[i] \in changed THEN v ELSE mem[FruFiles[i]])] :
        changed \in {{"header"}, {"header", "board"}, {"header", "product"}, {"header", "chassis"}}}

\* handle_setting_call: a display; the web port when it changed; ssh and alert
\* always (alert twice when its port changed); the KVM ports that changed.  When
\* both did, it runs the program req (external).
Shown(switch, port) == IF setting[switch] = Disabled THEN Disabled ELSE setting[port]

SettingPage(change, v) ==
    LET New(x, switch) == IF change = x THEN v ELSE IF change = switch THEN Disabled ELSE Shown(switch, x)
        alert == <<Command("alert", New("alert", "alertOn"))>>
    IN <<Command("get", 0)>>
       \o (IF change = "web" THEN <<Command("web", v)>> ELSE <<>>)
       \o <<Command("ssh", New("ssh", "sshOn"))>>
       \o (IF change = "alert" THEN alert \o alert ELSE alert)
       \o (IF change \in {"kvm", "proxy", "both"} THEN <<Command(change, v)>> ELSE <<>>)

SettingPages(v) == {SettingPage(change, v) : change \in SettingFields \cup {"both"}}

StartPage ==
    /\ page = <<>> /\ sets < MaxSets /\ sets' = sets + 1
    /\ page' \in FruPages(sets + 1) \cup SettingPages(sets + 1) \cup {<<Command("get", 0)>>}
    /\ UNCHANGED <<edge, busy, jobs, setting, mem, files, deaths, written, crossed, forgotten>>

\* What a dead web server sent is still handled, what it did not is lost.
WebDie ==
    /\ page # <<>> /\ deaths.web < MaxDeaths
    /\ deaths' = [deaths EXCEPT !.web = @ + 1]
    /\ page' = <<>> /\ busy' = FALSE
    /\ jobs' = {[j EXCEPT !.own = FALSE] : j \in jobs}
    /\ UNCHANGED <<edge, setting, mem, files, sets, written, crossed, forgotten>>

-----------------------------------------------------------------------------
(* KETI-Edge: what the commands do.                                        *)

Set(f, x, v) == [f EXCEPT ![x] = v]

\* Variant with a bug: a change of the product alone is not saved.
FilesOfNoProduct(c, v) ==
    CASE c \in {"header", "get", "product"} -> <<>>
      [] c \in FruFields -> IF mem[c] = v THEN <<>> ELSE FruFiles
      [] c \in {"kvm", "proxy", "both"} -> <<"kvm">>
      [] OTHER -> <<c>>

\* The files a command writes.  plat_fru_device_save writes all four, when a
\* text of the board (not its date), the product or the chassis changed.
FilesOf(c, v) ==
    CASE c \in {"header", "get"} -> <<>>
      [] c \in FruFields -> IF mem[c] = v THEN <<>> ELSE FruFiles
      [] c \in {"kvm", "proxy", "both"} -> <<"kvm">>
      [] OTHER -> <<c>>

\* set_setting_service on g_setting.  "0" disables ssh and alerts and leaves
\* their ports; the port of alerts needs .msmtprc (external).
Settings(c, v, msmtprc) ==
    CASE c = "web"   -> Set(setting, "web", v)
      [] c = "ssh"   -> IF v = Disabled THEN Set(setting, "sshOn", Disabled)
                        ELSE [setting EXCEPT !.sshOn = 0, !.ssh = v]
      [] c = "alert" -> IF v = Disabled THEN Set(setting, "alertOn", Disabled)
                        ELSE IF msmtprc THEN [setting EXCEPT !.alertOn = 0, !.alert = v] ELSE setting
      [] c \in {"kvm", "proxy"} -> Set(setting, c, v)
      [] c = "both"  -> [setting EXCEPT !.kvm = v, !.proxy = v]
      [] OTHER       -> setting

\* Variant with a bug: whether ssh is enabled is not copied.
CopiedNoSwitch(c) ==
    CASE c = "ssh"   -> {"ssh"}
      [] c = "alert" -> {"alertOn", "alert"}
      [] c = "both"  -> {"kvm", "proxy"}
      [] c \in {"web", "kvm", "proxy"} -> {c}
      [] OTHER       -> {}

\* What it then copies from g_setting to the structure of the service.
Copied(c) ==
    CASE c = "ssh"   -> {"sshOn", "ssh"}
      [] c = "alert" -> {"alertOn", "alert"}
      [] c = "both"  -> {"kvm", "proxy"}
      [] c \in {"web", "kvm", "proxy"} -> {c}
      [] OTHER       -> {}

\* get_setting_service: while a file is missing every display loads all
\* structures again, and as access never succeeds that means the defaults.
Reloads(c) == c = "get" /\ \E f \in SettingFiles : files[f] = Absent

\* rest_set_fru_header and the rest_set_fru_... of board, product and chassis.
Memory(c, v, g) ==
    [x \in DOMAIN mem |->
        IF x \in SettingFields /\ Reloads(c) THEN 0
        ELSE IF x \in Copied(c) THEN g[x]
        ELSE IF x = c THEN v
        ELSE IF c = "board" /\ x = "date" THEN sets
        ELSE mem[x]]

\* The thread of a command: memory first.
Take ==
    /\ edge /\ page # <<>> /\ ~busy /\ busy' = TRUE
    /\ LET c == Head(page).cmd
           v == Head(page).value
       IN /\ \E msmtprc \in BOOLEAN :
                /\ setting' = Settings(c, v, msmtprc)
                /\ mem' = Memory(c, v, setting')
          /\ jobs' = jobs \cup {[own |-> TRUE, todo |-> FilesOf(c, v), buf |-> Empty]}
          /\ forgotten' = IF Reloads(c) THEN SettingFields ELSE forgotten \ Copied(c)
    /\ crossed' = (crossed \/ jobs # {})
    /\ UNCHANGED <<edge, page, files, sets, deaths, written>>

Moved(j, todo, buf) == (jobs \ {j}) \cup {[j EXCEPT !.todo = todo, !.buf = buf]}

\* fopen and fwrite.
OpenFile(j) ==
    /\ j.todo # <<>> /\ j.buf = Empty
    /\ files' = [files EXCEPT ![Head(j.todo)] = Empty]
    /\ jobs' = Moved(j, j.todo, [x \in FieldsOf(Head(j.todo)) |-> mem[x]])
    /\ written' = written \ {Head(j.todo)}
    /\ UNCHANGED <<edge, page, busy, setting, mem, sets, deaths, crossed, forgotten>>

\* fclose.
CloseFile(j) ==
    /\ j.todo # <<>> /\ j.buf # Empty
    /\ files' = [files EXCEPT ![Head(j.todo)] = j.buf]
    /\ jobs' = Moved(j, Tail(j.todo), Empty)
    /\ written' = written \cup {Head(j.todo)}
    /\ UNCHANGED <<edge, page, busy, setting, mem, sets, deaths, crossed, forgotten>>

\* The answer lets the page go on.
Answer(j) ==
    /\ j.todo = <<>>
    /\ jobs' = jobs \ {j}
    /\ page' = IF j.own THEN Tail(page) ELSE page
    /\ busy' = (busy /\ ~j.own)
    /\ UNCHANGED <<edge, setting, mem, files, sets, deaths, written, crossed, forgotten>>

\* The page waits for ever: only the end of the web server ends it.
EdgeDie ==
    /\ edge /\ deaths.edge < MaxDeaths
    /\ deaths' = [deaths EXCEPT !.edge = @ + 1]
    /\ edge' = FALSE /\ jobs' = {}
    /\ UNCHANGED <<page, busy, setting, mem, files, sets, written, crossed, forgotten>>

\* plat_fru_device_init and load_g_setting: no file is read.
EdgeStart ==
    /\ ~edge /\ edge' = TRUE
    /\ setting' = Defaults(SettingFields)
    /\ mem' = Defaults(FruFields \cup SettingFields)
    /\ written' = {} /\ crossed' = FALSE /\ forgotten' = {}
    /\ UNCHANGED <<page, busy, jobs, files, sets, deaths>>

Init ==
    /\ edge = TRUE /\ page = <<>> /\ busy = FALSE /\ jobs = {}
    /\ setting = Defaults(SettingFields)
    /\ mem = Defaults(FruFields \cup SettingFields)
    /\ files = [f \in SettingFiles \cup {FruFiles[i] : i \in 1 .. 4} |-> Absent]
    /\ sets = 0 /\ deaths = [web |-> 0, edge |-> 0]
    /\ written = {} /\ crossed = FALSE /\ forgotten = {}

Next ==
    \/ StartPage \/ WebDie \/ Take
    \/ \E j \in jobs : OpenFile(j) \/ CloseFile(j) \/ Answer(j)
    \/ EdgeDie \/ EdgeStart

Spec == Init /\ [][Next]_vars

-----------------------------------------------------------------------------
(* Properties.                                                             *)

Quiet == edge /\ jobs = {} /\ ~crossed

\* What the FRU page set is in the files once one of them was written, with the
\* exception of the device id and the date, whose change alone saves nothing.
FruFilesFollowMemory ==
    Quiet => \A f \in {"board", "product", "chassis"} \cap written : files[f][f] = mem[f]

\* What the services page displays is what the files hold that were written
\* since KETI-Edge started, but for alerts, and for a KVM port that a display
\* put back to its default before the other one was saved.
SettingFilesFollowDisplay ==
    Quiet => /\ \A f \in {"web", "ssh"} \cap written :
                    \A x \in FieldsOf(f) : files[f][x] = setting[x]
             /\ "kvm" \in written => \A x \in {"kvm", "proxy"} \ forgotten : files.kvm[x] = setting[x]
=============================================================================
