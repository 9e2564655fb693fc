------------------------------- MODULE RestPages -------------------------------
(***************************************************************************)
(* The settings pages of the web server that are saved by several commands:*)
(* SMTP, SSL, Active Directory, LDAP, RADIUS and NTP.  KETI-REST posts one *)
(* page at a time and waits for the answer of each command (sendrecv);     *)
(* KETI-Edge runs each command in a thread of its own.  A command rewrites *)
(* the whole file of its page: it starts from zeros, from the uninitialised*)
(* stack, or from what it reads, and opens the file with "w".              *)
(*                                                                         *)
(* Two commands overlap when the web server dies in the middle of a page:  *)
(* the command it sent is still handled while the next server saves a page.*)
(* When KETI-Edge dies its threads are gone and the web server waits for   *)
(* ever (RestQueue has the queues in detail).                              *)
(***************************************************************************)
EXTENDS ServiceBounds, FiniteSets, Sequences, SequencesExt

VARIABLES
    web,       \* the web server: pc, page, number of the save, next command, quiet
    edge,      \* TRUE while KETI-Edge runs
    redfish,   \* TRUE: the record of the EventService is there
    queue,     \* requests KETI-Edge has not received
    workers,   \* threads of run_ipmi_handle_rest
    files,     \* contents of the settings files
    published, \* contents of the files made from them
    saves,     \* saves so far: the value all fields of a page have
    deaths,    \* [process -> deaths so far]
    saved,     \* history: the last save of a file that nothing disturbed, or 0
    broken     \* history: an enabling directory page was broken off since

vars == <<web, edge, redfish, queue, workers, files, published, saves, deaths, saved, broken>>

\* A field holds the number of a save, 0 (cleared) or what the stack held.
Junk == MaxSaves + 1

\* The fields of each file, named after the command that sets them.
Fields ==
    [smtp   |-> {"SMTP_SENDER", "SMTP_PRIMARY", "SMTP_SECONDARY"},
     ssl    |-> {"SSL_1", "SSL_2"},
     ad     |-> {"AD_ENABLE", "AD_IP_PWD", "AD_DOMAIN", "AD_USERNAME"},
     ldap   |-> {"LDAP_ENABLE", "LDAP_IP", "LDAP_PORT", "LDAP_SEARCHBASE", "LDAP_BINDDN",
                 "LDAP_PASSWORD", "LDAP_SSL", "LDAP_TIMELIMIT"},
     radius |-> {"RADIUS"},
     ntp    |-> {"NTP_AUTO"}]

Files == DOMAIN Fields

\* What a file that is not there, or was only opened with "w", contains.
Absent == [x \in {} |-> 0]
Empty  == [x \in {"truncated"} |-> 0]
IsRecord(content) == content \notin {Absent, Empty}

Filled(f, v) == [x \in Fields[f] |-> v]

-----------------------------------------------------------------------------
(* The commands of KETI-Edge: the file they rewrite, what they fill the    *)
(* fields they do not set from, and whether they then write the file other *)
(* programs read.                                                          *)

Setter(file, from) == [file |-> file, from |-> from, publishes |-> FALSE]
Publisher(file, from) == [file |-> file, from |-> from, publishes |-> TRUE]

set_smtp_sender_machine == Setter("smtp", "stack")

\* Variant with a bug: the primary server is saved as the sender is.
set_smtp_primary_receiverFresh == Setter("smtp", "stack")

set_smtp_primary_receiver   == Setter("smtp", "file")
set_smtp_secondary_receiver == Publisher("smtp", "file")

set_ssl_1 == Setter("ssl", "stack")
set_ssl_2 == Setter("ssl", "file")

set_ad_enable           == Setter("ad", "zero")
set_ad_conf_file_ip_pwd == Setter("ad", "file")
set_ad_conf_file_domain == Setter("ad", "file")

\* Variant with a bug: nslcd.conf is not written after the user name.
set_ad_conf_file_usernameOnly == Setter("ad", "file")

set_ad_conf_file_username == Publisher("ad", "file")

set_ldap_enable     == Setter("ldap", "zero")
set_ldap_ip         == Setter("ldap", "file")
set_ldap_port       == Setter("ldap", "file")
set_ldap_searchbase == Setter("ldap", "file")
set_ldap_binddn     == Setter("ldap", "file")
set_ldap_bindpw     == Setter("ldap", "file")
set_ldap_ssl        == Setter("ldap", "file")
set_ldap_timelimit  == Publisher("ldap", "file")

set_radius_config  == Publisher("radius", "stack")
set_radius_disable == Publisher("radius", "zero")

set_ntp_conf_auto   == Setter("ntp", "stack")
parse_ntp_conf_file == Setter("ntp", "none")

Handlers ==
    [SMTP_SENDER     |-> set_smtp_sender_machine,   SMTP_PRIMARY   |-> set_smtp_primary_receiver,
     SMTP_SECONDARY  |-> set_smtp_secondary_receiver,
     SSL_1           |-> set_ssl_1,                 SSL_2          |-> set_ssl_2,
     AD_ENABLE       |-> set_ad_enable,             AD_IP_PWD      |-> set_ad_conf_file_ip_pwd,
     AD_DOMAIN       |-> set_ad_conf_file_domain,   AD_USERNAME    |-> set_ad_conf_file_username,
     LDAP_ENABLE     |-> set_ldap_enable,           LDAP_IP        |-> set_ldap_ip,
     LDAP_PORT       |-> set_ldap_port,             LDAP_BINDDN    |-> set_ldap_binddn,
     LDAP_SEARCHBASE |-> set_ldap_searchbase,       LDAP_PASSWORD  |-> set_ldap_bindpw,
     LDAP_SSL        |-> set_ldap_ssl,              LDAP_TIMELIMIT |-> set_ldap_timelimit,
     RADIUS          |-> set_radius_config,         RADIUS_DISABLE |-> set_radius_disable,
     NTP_AUTO        |-> set_ntp_conf_auto,         GET_NTP        |-> parse_ntp_conf_file]

FileOf(c) == Handlers[c].file

\* The file a publisher writes, whether it removes it first, and what it does
\* when it cannot read the settings it has just saved.
write_smtp_config_to_file == [target |-> "smtp", removes |-> FALSE, unread |-> "return"]
write_ad_to_file          == [target |-> "nslcd", removes |-> TRUE, unread |-> "return"]
write_ldap_to_nslcd       == [target |-> "nslcd", removes |-> TRUE, unread |-> "go on"]

Published(f) ==
    CASE f = "smtp"   -> write_smtp_config_to_file
      [] f = "ad"     -> write_ad_to_file
      [] f = "ldap"   -> write_ldap_to_nslcd
      [] f = "radius" -> [target |-> "radius", removes |-> FALSE, unread |-> "never"]

-----------------------------------------------------------------------------
(* The pages of KETI-REST: the commands a POST of each sends, in order.    *)

On(c)  == [cmd |-> c, on |-> TRUE]
Off(c) == [cmd |-> c, on |-> FALSE]

handle_smtp_call == <<On("SMTP_SENDER"), On("SMTP_PRIMARY"), On("SMTP_SECONDARY")>>
handle_ssl_call  == <<On("SSL_1"), On("SSL_2")>>

\* The two directories turn each other off, last of all.
handle_ad_call(enable) ==
    IF enable
    THEN <<On("AD_ENABLE"), On("AD_IP_PWD"), On("AD_DOMAIN"), On("AD_USERNAME"), Off("LDAP_ENABLE")>>
    ELSE <<Off("AD_ENABLE")>>

\* Variant with a bug: Active Directory stays enabled.
handle_ldap_callAlone(enable) ==
    IF enable
    THEN <<On("LDAP_ENABLE"), On("LDAP_IP"), On("LDAP_PORT"), On("LDAP_SEARCHBASE"), On("LDAP_BINDDN"),
           On("LDAP_PASSWORD"), On("LDAP_SSL"), On("LDAP_TIMELIMIT")>>
    ELSE <<Off("LDAP_ENABLE")>>

handle_ldap_call(enable) ==
    IF enable
    THEN <<On("LDAP_ENABLE"), On("LDAP_IP"), On("LDAP_PORT"), On("LDAP_SEARCHBASE"), On("LDAP_BINDDN"),
           On("LDAP_PASSWORD"), On("LDAP_SSL"), On("LDAP_TIMELIMIT"), Off("AD_ENABLE")>>
    ELSE <<Off("LDAP_ENABLE")>>

handle_radius_call(enable) == <<Off("RADIUS_DISABLE")>> \o (IF enable THEN <<On("RADIUS")>> ELSE <<>>)

handle_ntp_call == [show |-> <<Off("GET_NTP")>>, auto |-> <<On("NTP_AUTO")>>]

Commands(p) ==
    CASE p = "smtp"    -> handle_smtp_call
      [] p = "ssl"     -> handle_ssl_call
      [] p = "ad"      -> handle_ad_call(TRUE)
      [] p = "adOff"   -> handle_ad_call(FALSE)
      [] p = "ldap"    -> handle_ldap_call(TRUE)
      [] p = "ldapOff" -> handle_ldap_call(FALSE)
      [] p = "radius"  -> handle_radius_call(TRUE)
      [] p = "radiusOff" -> handle_radius_call(FALSE)
      [] p = "ntp"     -> handle_ntp_call.auto
      [] p = "ntpShow" -> handle_ntp_call.show

\* The pages that save settings are named after their file.
Pages == Files \cup {"adOff", "ldapOff", "radiusOff", "ntpShow"}

FilesOf(p) == IF p = "ntpShow" THEN {} ELSE {FileOf(Commands(p)[i].cmd) : i \in DOMAIN Commands(p)}

Directories == {"ad", "ldap"}

Enabled(f) == IsRecord(files[f]) /\ files[f][IF f = "ad" THEN "AD_ENABLE" ELSE "LDAP_ENABLE"] # 0

Idle == [pc |-> "idle", page |-> "ntpShow", save |-> 0, next |-> 1, quiet |-> FALSE]
Down == [Idle EXCEPT !.pc = "down"]

-----------------------------------------------------------------------------
(* KETI-REST.                                                              *)

WebStart ==
    /\ web.pc = "down" /\ web' = Idle
    /\ UNCHANGED <<edge, redfish, queue, workers, files, published, saves, deaths, saved, broken>>

\* A page is quiet when no command of a dead web server is left.
StartPage ==
    /\ web.pc = "idle" /\ saves < MaxSaves /\ saves' = saves + 1
    /\ \E p \in Pages :
       /\ web' = [pc |-> "call", page |-> p, save |-> saves + 1, next |-> 1,
                  quiet |-> queue = <<>> /\ workers = {} /\ (p = "smtp" => redfish)]
       /\ saved' = [f \in Files |-> IF f \in FilesOf(p) THEN 0 ELSE saved[f]]
    /\ UNCHANGED <<edge, redfish, queue, workers, files, published, deaths, broken>>

\* handle_ntp_call with AUTO_SYNC 0: done by the web server alone.
NtpManual ==
    /\ web.pc = "idle" /\ saves < MaxSaves /\ saves' = saves + 1
    /\ files' = IF files.ntp = Absent THEN files
                ELSE [files EXCEPT !.ntpbak = files.ntp, !.ntp = Absent]
    /\ saved' = [saved EXCEPT !.ntp = 0]
    /\ UNCHANGED <<web, edge, redfish, queue, workers, published, deaths, broken>>

SendCommand ==
    /\ web.pc = "call"
    /\ LET c == Commands(web.page)[web.next]
       IN queue' = Append(queue, [cmd |-> c.cmd, value |-> IF c.on THEN web.save ELSE 0, own |-> TRUE])
    /\ web' = [web EXCEPT !.pc = "wait"]
    /\ UNCHANGED <<edge, redfish, workers, files, published, saves, deaths, saved, broken>>

\* The page is answered.  handle_radius_call moves raddb/server away when the
\* answer, which is arbitrary, says 0 and the file is there.
FinishPage ==
    /\ web.pc = "finish"
    /\ web' = Idle
    /\ saved' = IF web.page \in Files /\ web.quiet THEN [saved EXCEPT ![web.page] = web.save] ELSE saved
    /\ broken' = (broken /\ ~(web.page \in Directories /\ web.quiet))
    /\ \/ web.page = "radiusOff" /\ published' = [published EXCEPT !.radius = Absent]
       \/ published' = published
    /\ UNCHANGED <<edge, redfish, queue, workers, files, saves, deaths>>

Disowned(requests) == {[r EXCEPT !.own = FALSE] : r \in requests}

\* SIGINT, a crash, an update.
WebDie ==
    /\ web.pc # "down" /\ deaths.web < MaxDeaths
    /\ deaths' = [deaths EXCEPT !.web = @ + 1]
    /\ web' = Down
    /\ queue' = [i \in DOMAIN queue |-> [queue[i] EXCEPT !.own = FALSE]]
    /\ workers' = Disowned(workers)
    /\ broken' = (broken \/ (web.pc # "idle" /\ web.page \in Directories))
    /\ UNCHANGED <<edge, redfish, files, published, saves, saved>>

\* set_ldap_timelimit stores the time through a pointer that is not set: when
\* that does not end the web server the message holds the time all the same.
SetTimelimitFails ==
    /\ web.pc = "call" /\ Commands(web.page)[web.next].cmd = "LDAP_TIMELIMIT"
    /\ deaths.web < MaxDeaths /\ deaths' = [deaths EXCEPT !.web = @ + 1]
    /\ web' = Down /\ broken' = TRUE
    /\ UNCHANGED <<edge, redfish, queue, workers, files, published, saves, saved>>

-----------------------------------------------------------------------------
(* KETI-Edge.                                                              *)

\* rest_handler makes a thread for the request.
Take ==
    /\ edge /\ queue # <<>>
    /\ workers' = workers \cup {[cmd |-> Head(queue).cmd, value |-> Head(queue).value,
                                 own |-> Head(queue).own, at |-> "begin", buf |-> Empty]}
    /\ queue' = Tail(queue)
    /\ UNCHANGED <<web, edge, redfish, files, published, saves, deaths, saved, broken>>

Moved(w, at, buf) == (workers \ {w}) \cup {[w EXCEPT !.at = at, !.buf = buf]}

\* Where a setter that returns leaves the thread.
AfterSetter(w) == IF Handlers[w.cmd].publishes THEN "publish" ELSE "done"

EdgeGone ==
    /\ edge' = FALSE /\ redfish' = FALSE /\ workers' = {}
    /\ web' = [web EXCEPT !.quiet = @ /\ web.page # "smtp"]

\* fopen "r" and fread.  When that fails the LDAP setters go on with what the
\* stack holds, set_ad_conf_file_ip_pwd reads from a null pointer, the others
\* return.  set_smtp_primary_receiver uses the EventService.
ReadFile(w) ==
    LET f == FileOf(w.cmd)
        content == files[f]
        fails == \/ w.cmd = "AD_IP_PWD" /\ content = Absent
                 \/ w.cmd = "SMTP_PRIMARY" /\ IsRecord(content) /\ ~redfish
    IN /\ w.at = "begin" /\ Handlers[w.cmd].from = "file"
       /\ \/ fails /\ EdgeGone
          \/ /\ ~fails /\ UNCHANGED <<web, edge, redfish>>
             /\ workers' = IF IsRecord(content) THEN Moved(w, "read", content)
                           ELSE IF f = "ldap" THEN Moved(w, "read", Filled(f, Junk))
                           ELSE Moved(w, AfterSetter(w), w.buf)
       /\ UNCHANGED <<queue, files, published, saves, deaths, saved, broken>>

\* fopen "w".  set_smtp_sender_machine returns here without an EventService.
OpenFile(w) ==
    LET f == FileOf(w.cmd)
        from == Handlers[w.cmd].from
    IN /\ w.at = "read" \/ (w.at = "begin" /\ from \in {"stack", "zero"})
       /\ files' = [files EXCEPT ![f] = Empty]
       /\ workers' = IF w.cmd = "SMTP_SENDER" /\ ~redfish THEN Moved(w, "done", Empty)
                     ELSE Moved(w, "open", CASE from = "stack" -> Filled(f, Junk)
                                             [] from = "zero"  -> Filled(f, 0)
                                             [] from = "file"  -> w.buf)
       /\ UNCHANGED <<web, edge, redfish, queue, published, saves, deaths, saved, broken>>

\* fwrite and fclose.
WriteFile(w) ==
    LET f == FileOf(w.cmd)
        content == [x \in Fields[f] |-> IF x = w.cmd THEN w.value ELSE w.buf[x]]
    IN /\ w.at = "open"
       /\ files' = [files EXCEPT ![f] = content]
       /\ workers' = Moved(w, AfterSetter(w), content)
       /\ UNCHANGED <<web, edge, redfish, queue, published, saves, deaths, saved, broken>>

\* write_smtp_config_to_file, write_ad_to_file, write_ldap_to_nslcd read the
\* file again; the RADIUS setters use what they have in memory.
PublishRead(w) ==
    LET f == FileOf(w.cmd)
    IN /\ w.at = "publish"
       /\ workers' = IF f = "radius" THEN Moved(w, "clear", w.buf)
                     ELSE IF IsRecord(files[f]) THEN Moved(w, "clear", files[f])
                     ELSE IF Published(f).unread = "go on" THEN Moved(w, "clear", Filled(f, Junk))
                     ELSE Moved(w, "done", Empty)
       /\ UNCHANGED <<web, edge, redfish, queue, files, published, saves, deaths, saved, broken>>

\* rm of nslcd.conf and of raddb/server, fopen "w" of the others.
PublishClear(w) ==
    LET f == FileOf(w.cmd)
        removes == Published(f).removes \/ w.cmd = "RADIUS_DISABLE"
    IN /\ w.at = "clear"
       /\ published' = [published EXCEPT ![Published(f).target] = IF removes THEN Absent ELSE Empty]
       /\ workers' = Moved(w, IF w.cmd = "RADIUS_DISABLE" THEN "done" ELSE "fill", w.buf)
       /\ UNCHANGED <<web, edge, redfish, queue, files, saves, deaths, saved, broken>>

\* nslcd.conf is not truncated: what another thread wrote may show behind it.
PublishWrite(w) ==
    LET f == FileOf(w.cmd)
        mixed == IF IsRecord(published[Published(f).target]) THEN {Filled(f, Junk)} ELSE {}
    IN /\ w.at = "fill"
       /\ \E content \in {w.buf} \cup mixed :
             published' = [published EXCEPT ![Published(f).target] = content]
       /\ workers' = Moved(w, "done", Empty)
       /\ UNCHANGED <<web, edge, redfish, queue, files, saves, deaths, saved, broken>>

\* parse_ntp_conf_file: the display moves the backup over ntp.conf.
ShowNtp(w) ==
    /\ w.at = "begin" /\ w.cmd = "GET_NTP"
    /\ IF files.ntp # Absent /\ files.ntpbak # Absent
       THEN /\ files' = [files EXCEPT !.ntp = files.ntpbak, !.ntpbak = Absent]
            /\ saved' = [saved EXCEPT !.ntp = 0]
       ELSE UNCHANGED <<files, saved>>
    /\ workers' = Moved(w, "done", Empty)
    /\ UNCHANGED <<web, edge, redfish, queue, published, saves, deaths, broken>>

\* The answer; one to a web server that is gone stays in the queue.
Answer(w) ==
    /\ w.at = "done" /\ workers' = workers \ {w}
    /\ web' = IF ~w.own THEN web
              ELSE IF web.next = Len(Commands(web.page)) THEN [web EXCEPT !.pc = "finish"]
              ELSE [web EXCEPT !.pc = "call", !.next = @ + 1]
    /\ UNCHANGED <<edge, redfish, queue, files, published, saves, deaths, saved, broken>>

EdgeDie ==
    /\ edge /\ deaths.edge < MaxDeaths
    /\ deaths' = [deaths EXCEPT !.edge = @ + 1]
    /\ EdgeGone
    /\ UNCHANGED <<queue, files, published, saves, saved, broken>>

EdgeStart ==
    /\ ~edge /\ edge' = TRUE
    /\ UNCHANGED <<web, redfish, queue, workers, files, published, saves, deaths, saved, broken>>

\* start_redfish_server runs in a thread: the EventService comes later.
RedfishReady ==
    /\ edge /\ ~redfish /\ redfish' = TRUE
    /\ UNCHANGED <<web, edge, queue, workers, files, published, saves, deaths, saved, broken>>

Init ==
    /\ web = Idle /\ edge = TRUE /\ redfish = FALSE
    /\ queue = <<>> /\ workers = {}
    /\ files = [f \in Files \cup {"ntpbak"} |-> Absent]
    /\ published = [t \in {"smtp", "nslcd", "radius"} |-> Absent]
    /\ saves = 0 /\ deaths = [web |-> 0, edge |-> 0]
    /\ saved = [f \in Files |-> 0] /\ broken = FALSE

Next ==
    \/ WebStart \/ StartPage \/ NtpManual \/ SendCommand \/ FinishPage \/ WebDie \/ SetTimelimitFails
    \/ Take
    \/ \E w \in workers :
          \/ ReadFile(w) \/ OpenFile(w) \/ WriteFile(w)
          \/ PublishRead(w) \/ PublishClear(w) \/ PublishWrite(w)
          \/ ShowNtp(w) \/ Answer(w)
    \/ EdgeDie \/ EdgeStart \/ RedfishReady

Spec == Init /\ [][Next]_vars

-----------------------------------------------------------------------------
(* Properties.                                                             *)

\* A page that was answered, with no command of a dead web server about, left
\* all its fields in its file: none is zero, garbage or of an earlier save.
\* They stay until the next page of that file, or until the display of NTP
\* moves a backup over them.
SavedPageIsWhole ==
    \A f \in Files : saved[f] # 0 => files[f] = Filled(f, saved[f])

\* The file that the mail client, the directory client and RADIUS read has all
\* the fields of the page that was saved last.
PublishedIsSaved ==
    \A f \in {"smtp", "ad", "ldap", "radius"} :
        saved[f] # 0 => published[Published(f).target] = Filled(f, saved[f])

\* Active Directory and LDAP are not enabled both, but while one of their pages
\* is saved, or when one was broken off and none was saved undisturbed since.
OneDirectory ==
    Enabled("ad") /\ Enabled("ldap") => broken \/ (web.pc # "down" /\ web.page \in Directories)
=============================================================================
