----------------------------- MODULE PagesProofs -----------------------------
(***************************************************************************)
(* Proofs about the settings pages of the web server as MCComponents runs  *)
(* them, for any number of saves and deaths: which commands are about when *)
(* a page is answered, and what they have left in the settings files, in   *)
(* the files made from them and in the two directories.                    *)
(*                                                                         *)
(* The invariant has four layers; each is kept by a step when it and the   *)
(* layers it rests on hold.  A page is quiet when nothing of a dead web    *)
(* server was about as it started: then its one command is the only thread *)
(* that can change its file, and the proof follows that file from command  *)
(* to command.                                                             *)
(***************************************************************************)
EXTENDS MCComponents, SequenceTheorems, TLAPS

pageVars ==
    <<focus, storeVars, fieldsVars, requestsVars, pagesVars, devicesVars, usersVars, powerVars>>

-----------------------------------------------------------------------------
(* The commands of the pages.                                              *)

Cmds == DOMAIN Pages!Handlers
Handler(c) == Pages!Handlers[c]

\* The contents a file of settings can have once it is written.
Contents(f) == [Pages!Fields[f] -> Nat]
FileStates == {Pages!Absent, Pages!Empty} \cup UNION {Contents(f) : f \in Pages!Files}

\* The files that are published, the files made from them, and the place of
\* the command that makes one in the page named after the file.
Publishing == {"smtp", "ad", "ldap", "radius"}
Targets == {"smtp", "nslcd", "radius"}
PublishedAt == [smtp |-> 3, ad |-> 4, ldap |-> 8, radius |-> 2]

Current(p, n) == Pages!Commands(p)[n]

\* The fields of file p that the first n commands of its page set.
SetBy(p, n) == {Current(p, i).cmd : i \in 1 .. n} \cap Pages!Fields[p]

Other(d) == IF d = "ad" THEN "ldap" ELSE "ad"

-----------------------------------------------------------------------------
(* The inductive invariant, in four layers.                                *)

\* Layer 1: types, and whose commands are about.
WorkerTyped(w) ==
    /\ w \in [cmd : Cmds, value : Nat, own : BOOLEAN, buf : FileStates,
              at : {"begin", "read", "open", "publish", "clear", "fill", "done"}]
    /\ w.at \in {"read", "open"} => w.buf \in Contents(Pages!FileOf(w.cmd))
    /\ w.at = "read" => Handler(w.cmd).from = "file"
    /\ w.at = "open" =>
           /\ Handler(w.cmd).from # "none"
           /\ Handler(w.cmd).from = "zero" => w.buf = Pages!Filled(Pages!FileOf(w.cmd), 0)
    /\ w.at \in {"publish", "clear", "fill"} => Handler(w.cmd).publishes

PagesTypes ==
    /\ p_web \in [pc : {"idle", "call", "wait", "finish", "down"}, page : Pages!Pages,
                  save : Nat, next : Nat, quiet : BOOLEAN]
    /\ p_web.next \in 1 .. Len(Pages!Commands(p_web.page))
    /\ p_web.pc = "finish" => p_web.next = Len(Pages!Commands(p_web.page))
    /\ p_web.pc \in {"idle", "down"} => p_web.page = "ntpShow" /\ ~p_web.quiet
    /\ p_edge \in BOOLEAN /\ p_redfish \in BOOLEAN /\ p_broken \in BOOLEAN
    /\ p_queue \in Seq([cmd : Cmds, value : Nat, own : BOOLEAN])
    /\ \A w \in p_workers : WorkerTyped(w)
    /\ p_files \in [Pages!Files \cup {"ntpbak"} -> FileStates]
    /\ \A f \in Pages!Files : Pages!IsRecord(p_files[f]) => p_files[f] \in Contents(f)
    /\ Pages!IsRecord(p_files.ntpbak) => p_files.ntpbak \in Contents("ntp")
    /\ p_published = [t \in Targets |-> p_published[t]]
    /\ p_saves \in Nat /\ p_saved \in [Pages!Files -> Nat]

\* The web server waits for one command at a time: a request or thread that is
\* its own is the one it waits for, and there is only one.
IsCurrent(r) ==
    LET c == Current(p_web.page, p_web.next) IN
    p_web.pc = "wait" /\ r.cmd = c.cmd /\ r.value = IF c.on THEN p_web.save ELSE 0

OwnIsCurrent ==
    /\ \A i \in DOMAIN p_queue : p_queue[i].own => IsCurrent(p_queue[i])
    /\ \A w \in p_workers : w.own => IsCurrent(w)
    /\ \A i, j \in DOMAIN p_queue : p_queue[i].own /\ p_queue[j].own => i = j
    /\ \A w, v \in p_workers : w.own /\ v.own => w = v
    /\ \A i \in DOMAIN p_queue, w \in p_workers : ~(p_queue[i].own /\ w.own)

\* In a quiet page no other command is about, and the record the mail settings
\* need is there.
QuietIsAlone ==
    p_web.quiet =>
        /\ \A i \in DOMAIN p_queue : p_queue[i].own
        /\ \A w \in p_workers : w.own
        /\ p_web.page = "smtp" => p_redfish

\* A command that can change what is recorded as saved: its file, or the file
\* made from it.
Touches(c, f) ==
    \/ Pages!FileOf(c) = f /\ c # "GET_NTP"
    \/ /\ f \in Publishing /\ Handler(c).publishes
       /\ Pages!Published(Pages!FileOf(c)).target = Pages!Published(f).target

\* Nothing that is about changes a file recorded as saved.
SavedIsLeftAlone ==
    \A f \in Pages!Files :
        p_saved[f] # 0 =>
            /\ f \notin Pages!FilesOf(p_web.page)
            /\ \A i \in DOMAIN p_queue : ~Touches(p_queue[i].cmd, f)
            /\ \A w \in p_workers : ~Touches(w.cmd, f)

PagesControl == PagesTypes /\ OwnIsCurrent /\ QuietIsAlone /\ SavedIsLeftAlone

\* Layer 2: in a quiet page the file has what the commands so far have set.
Holds(content, n) ==
    n > 0 => /\ content \in Contents(p_web.page)
             /\ \A x \in SetBy(p_web.page, n) : content[x] = p_web.save

\* What holds of the thread of the current command.
WorkerHolds(w) ==
    LET p == p_web.page
        n == p_web.next
        before == Holds(p_files[p], n - 1)
        after == Holds(p_files[p], n)
    IN  /\ w.at \in {"begin", "read"} => before
        /\ w.at = "read" => Pages!FileOf(w.cmd) = p /\ n > 1 /\ Holds(w.buf, n - 1)
        /\ w.at = "open" =>
               IF Pages!FileOf(w.cmd) = p THEN \A x \in SetBy(p, n - 1) : w.buf[x] = p_web.save
                                          ELSE before
        /\ w.at \in {"publish", "clear", "fill", "done"} => after
        /\ w.at \in {"clear", "fill"} \/ (w.at = "publish" /\ p = "radius") => Holds(w.buf, n)

QuietPage == p_web.quiet /\ p_web.page \in Pages!Files

Finished == IF p_web.pc = "finish" THEN p_web.next ELSE p_web.next - 1

FilesProgress ==
    QuietPage =>
        /\ p_web.pc \in {"call", "finish"} \/ p_queue # <<>> => Holds(p_files[p_web.page], Finished)
        /\ \A w \in p_workers : WorkerHolds(w)

PagesFiles == Pages!SavedPageIsWhole /\ FilesProgress

\* Layer 3: in a quiet page the file made from the settings has all of them
\* once the command that makes it has ended.
IsPublished == p_published[Pages!Published(p_web.page).target] = Pages!Filled(p_web.page, p_web.save)

WorkerPublishes(w) ==
    /\ (IF w.at = "done" THEN p_web.next ELSE p_web.next - 1) >= PublishedAt[p_web.page] => IsPublished
    /\ w.at = "fill" => ~Pages!IsRecord(p_published[Pages!Published(p_web.page).target])

PublishingPage == QuietPage /\ p_web.page \in Publishing

PublicationProgress ==
    PublishingPage =>
        /\ (p_web.pc \in {"call", "finish"} \/ p_queue # <<>>) /\ Finished >= PublishedAt[p_web.page]
               => IsPublished
        /\ \A w \in p_workers : WorkerPublishes(w)

PagesPublished == Pages!PublishedIsSaved /\ PublicationProgress

\* A command that can only disable a directory.
Disabling(r) == Handler(r.cmd).from = "zero" /\ r.value = 0

\* Layer 4: while nothing was broken off, commands that are left from an
\* earlier page only disable a directory, and so has the last command of a
\* directory page done with the other one.
LeftOversDisable ==
    ~p_broken =>
        /\ \A i \in DOMAIN p_queue :
               ~p_queue[i].own /\ Pages!FileOf(p_queue[i].cmd) \in Pages!Directories => Disabling(p_queue[i])
        /\ \A w \in p_workers :
               ~w.own /\ Pages!FileOf(w.cmd) \in Pages!Directories => Disabling(w)

OtherIsDisabled ==
    p_web.page \in Pages!Directories /\ (~p_broken \/ p_web.quiet) =>
        LET other == Other(p_web.page) IN
        /\ p_web.pc = "finish" => ~Pages!Enabled(other)
        /\ \A w \in p_workers :
               w.own /\ Pages!FileOf(w.cmd) = other /\ w.at = "done" => ~Pages!Enabled(other)

PagesDirectories == Pages!OneDirectory /\ LeftOversDisable /\ OtherIsDisabled

PagesInv == PagesControl /\ PagesFiles /\ PagesPublished /\ PagesDirectories

-----------------------------------------------------------------------------
(* What the pages send.                                                    *)

\* The pages spelled out.
LEMMA CommandsAre ==
    /\ Pages!Commands("smtp") = <<Pages!On("SMTP_SENDER"), Pages!On("SMTP_PRIMARY"), Pages!On("SMTP_SECONDARY")>>
    /\ Pages!Commands("ssl") = <<Pages!On("SSL_1"), Pages!On("SSL_2")>>
    /\ Pages!Commands("ad") =
           <<Pages!On("AD_ENABLE"), Pages!On("AD_IP_PWD"), Pages!On("AD_DOMAIN"), Pages!On("AD_USERNAME"),
             Pages!Off("LDAP_ENABLE")>>
    /\ Pages!Commands("adOff") = <<Pages!Off("AD_ENABLE")>>
    /\ Pages!Commands("ldap") =
           <<Pages!On("LDAP_ENABLE"), Pages!On("LDAP_IP"), Pages!On("LDAP_PORT"), Pages!On("LDAP_SEARCHBASE"),
             Pages!On("LDAP_BINDDN"), Pages!On("LDAP_PASSWORD"), Pages!On("LDAP_SSL"),
             Pages!On("LDAP_TIMELIMIT"), Pages!Off("AD_ENABLE")>>
    /\ Pages!Commands("ldapOff") = <<Pages!Off("LDAP_ENABLE")>>
    /\ Pages!Commands("radius") = <<Pages!Off("RADIUS_DISABLE"), Pages!On("RADIUS")>>
    /\ Pages!Commands("radiusOff") = <<Pages!Off("RADIUS_DISABLE")>>
    /\ Pages!Commands("ntp") = <<Pages!On("NTP_AUTO")>>
    /\ Pages!Commands("ntpShow") = <<Pages!Off("GET_NTP")>>
<1>1. /\ Pages!handle_radius_call(TRUE) = <<Pages!Off("RADIUS_DISABLE"), Pages!On("RADIUS")>>
      /\ Pages!handle_radius_call(FALSE) = <<Pages!Off("RADIUS_DISABLE")>>
  <2> DEFINE off == Pages!Off("RADIUS_DISABLE")
             on == Pages!On("RADIUS")
  <2>1. <<off>> \in Seq({off, on}) /\ <<on>> \in Seq({off, on}) /\ <<off, on>> \in Seq({off, on})
    OBVIOUS
  <2>2. <<off>> \o <<on>> = <<off, on>>
    <3> HIDE DEF off, on
    <3>1. /\ <<off>> \o <<on>> \in Seq({off, on}) /\ Len(<<off>> \o <<on>>) = 2
          /\ (<<off>> \o <<on>>)[1] = off /\ (<<off>> \o <<on>>)[2] = on
      BY <2>1, ConcatProperties
    <3>2. \A i \in 1 .. Len(<<off>> \o <<on>>) : (<<off>> \o <<on>>)[i] = <<off, on>>[i]
      BY <3>1
    <3>3. Len(<<off>> \o <<on>>) = Len(<<off, on>>)
      BY <3>1
    <3> QED BY <2>1, <3>1, <3>2, <3>3, SeqEqual
  <2>3. <<off>> \o <<>> = <<off>>
    BY <2>1, ConcatEmptySeq
  <2> QED BY <2>2, <2>3 DEF Pages!handle_radius_call
<1> QED BY <1>1 DEF Pages!Commands, Pages!handle_smtp_call, Pages!handle_ssl_call, Pages!handle_ad_call,
            Pages!handle_ldap_call, Pages!handle_ntp_call

\* The fields of the files spelled out.
LEMMA FieldsAre ==
    /\ Pages!Files = {"smtp", "ssl", "ad", "ldap", "radius", "ntp"}
    /\ Pages!Fields["smtp"] = {"SMTP_SENDER", "SMTP_PRIMARY", "SMTP_SECONDARY"}
    /\ Pages!Fields["ssl"] = {"SSL_1", "SSL_2"}
    /\ Pages!Fields["ad"] = {"AD_ENABLE", "AD_IP_PWD", "AD_DOMAIN", "AD_USERNAME"}
    /\ Pages!Fields["ldap"] = {"LDAP_ENABLE", "LDAP_IP", "LDAP_PORT", "LDAP_SEARCHBASE", "LDAP_BINDDN",
                               "LDAP_PASSWORD", "LDAP_SSL", "LDAP_TIMELIMIT"}
    /\ Pages!Fields["radius"] = {"RADIUS"}
    /\ Pages!Fields["ntp"] = {"NTP_AUTO"}
    /\ Pages!Pages = Pages!Files \cup {"adOff", "ldapOff", "radiusOff", "ntpShow"}
  BY DEF Pages!Files, Pages!Fields, Pages!Pages

\* The handlers spelled out: file, what the other fields come from, and
\* whether another file is made.
LEMMA HandlersAre ==
    /\ Cmds = {"SMTP_SENDER", "SMTP_PRIMARY", "SMTP_SECONDARY", "SSL_1", "SSL_2", "AD_ENABLE", "AD_IP_PWD",
               "AD_DOMAIN", "AD_USERNAME", "LDAP_ENABLE", "LDAP_IP", "LDAP_PORT", "LDAP_SEARCHBASE",
               "LDAP_BINDDN", "LDAP_PASSWORD", "LDAP_SSL", "LDAP_TIMELIMIT", "RADIUS", "RADIUS_DISABLE",
               "NTP_AUTO", "GET_NTP"}
    /\ Handler("SMTP_SENDER") = Pages!Setter("smtp", "stack")
    /\ Handler("SMTP_PRIMARY") = Pages!Setter("smtp", "file")
    /\ Handler("SMTP_SECONDARY") = Pages!Publisher("smtp", "file")
    /\ Handler("SSL_1") = Pages!Setter("ssl", "stack")
    /\ Handler("SSL_2") = Pages!Setter("ssl", "file")
    /\ Handler("AD_ENABLE") = Pages!Setter("ad", "zero")
    /\ \A c \in {"AD_IP_PWD", "AD_DOMAIN"} : Handler(c) = Pages!Setter("ad", "file")
    /\ Handler("AD_USERNAME") = Pages!Publisher("ad", "file")
    /\ Handler("LDAP_ENABLE") = Pages!Setter("ldap", "zero")
    /\ \A c \in {"LDAP_IP", "LDAP_PORT", "LDAP_SEARCHBASE", "LDAP_BINDDN", "LDAP_PASSWORD", "LDAP_SSL"} :
           Handler(c) = Pages!Setter("ldap", "file")
    /\ Handler("LDAP_TIMELIMIT") = Pages!Publisher("ldap", "file")
    /\ Handler("RADIUS") = Pages!Publisher("radius", "stack")
    /\ Handler("RADIUS_DISABLE") = Pages!Publisher("radius", "zero")
    /\ Handler("NTP_AUTO") = Pages!Setter("ntp", "stack")
    /\ Handler("GET_NTP") = Pages!Setter("ntp", "none")
  BY DEF Cmds, Handler, Pages!Handlers, Pages!set_smtp_sender_machine, Pages!set_smtp_primary_receiver,
        Pages!set_smtp_secondary_receiver, Pages!set_ssl_1, Pages!set_ssl_2, Pages!set_ad_enable,
        Pages!set_ad_conf_file_ip_pwd, Pages!set_ad_conf_file_domain, Pages!set_ad_conf_file_username,
        Pages!set_ldap_enable, Pages!set_ldap_ip, Pages!set_ldap_port, Pages!set_ldap_searchbase,
        Pages!set_ldap_binddn, Pages!set_ldap_bindpw, Pages!set_ldap_ssl, Pages!set_ldap_timelimit,
        Pages!set_radius_config, Pages!set_radius_disable, Pages!set_ntp_conf_auto,
        Pages!parse_ntp_conf_file

\* How long the pages are, and which files they go to.
LEMMA PagesAre ==
    /\ Len(Pages!Commands("smtp")) = 3 /\ Len(Pages!Commands("ssl")) = 2
    /\ Len(Pages!Commands("ad")) = 5 /\ Len(Pages!Commands("ldap")) = 9
    /\ Len(Pages!Commands("radius")) = 2 /\ Len(Pages!Commands("ntp")) = 1
    /\ \A p \in {"adOff", "ldapOff", "radiusOff", "ntpShow"} : Len(Pages!Commands(p)) = 1
    /\ \A p \in {"smtp", "ssl", "radius", "ntp"} : Pages!FilesOf(p) = {p}
    /\ \A p \in Pages!Directories : Pages!FilesOf(p) = Pages!Directories
    /\ Pages!FilesOf("adOff") = {"ad"} /\ Pages!FilesOf("ldapOff") = {"ldap"}
    /\ Pages!FilesOf("radiusOff") = {"radius"} /\ Pages!FilesOf("ntpShow") = {}
<1> USE CommandsAre, HandlersAre DEF Pages!On, Pages!Off, Pages!Setter, Pages!Publisher
<1>1. /\ Len(Pages!Commands("smtp")) = 3 /\ Len(Pages!Commands("ssl")) = 2
      /\ Len(Pages!Commands("ad")) = 5 /\ Len(Pages!Commands("ldap")) = 9
      /\ Len(Pages!Commands("radius")) = 2 /\ Len(Pages!Commands("ntp")) = 1
      /\ \A p \in {"adOff", "ldapOff", "radiusOff", "ntpShow"} : Len(Pages!Commands(p)) = 1
  OBVIOUS
<1>2. \A p \in {"smtp", "ssl", "radius", "ntp"} : Pages!FilesOf(p) = {p}
  <2>1. Pages!FilesOf("smtp") = {"smtp"}
    BY SMTT(30) DEF Pages!FilesOf, Pages!FileOf, Handler
  <2>2. Pages!FilesOf("ssl") = {"ssl"}
    <3> DEFINE s == Pages!Commands("ssl")
    <3>1. DOMAIN s = 1 .. 2
      OBVIOUS
    <3>2. Pages!FileOf(s[1].cmd) = "ssl" /\ Pages!FileOf(s[2].cmd) = "ssl"
      BY DEF Pages!FileOf, Handler
    <3>3. \A i \in 1 .. 2 : i = 1 \/ i = 2
      OBVIOUS
    <3> QED BY ONLY <3>1, <3>2, <3>3 DEF Pages!FilesOf
  <2>3. Pages!FilesOf("radius") = {"radius"}
    <3> DEFINE s == Pages!Commands("radius")
    <3>1. DOMAIN s = 1 .. 2
      OBVIOUS
    <3>2. Pages!FileOf(s[1].cmd) = "radius" /\ Pages!FileOf(s[2].cmd) = "radius"
      BY DEF Pages!FileOf, Handler
    <3>3. \A i \in 1 .. 2 : i = 1 \/ i = 2
      OBVIOUS
    <3> QED BY ONLY <3>1, <3>2, <3>3 DEF Pages!FilesOf
  <2>4. Pages!FilesOf("ntp") = {"ntp"}
    BY DEF Pages!FilesOf, Pages!FileOf, Handler
  <2> QED BY <2>1, <2>2, <2>3, <2>4
<1>3. \A p \in Pages!Directories : Pages!FilesOf(p) = Pages!Directories
  <2>1. Pages!FilesOf("ad") = {"ad", "ldap"}
    <3> DEFINE s == Pages!Commands("ad")
    <3>1. DOMAIN s = 1 .. 5
      OBVIOUS
    <3>2. /\ \A i \in 1 .. 4 : Pages!FileOf(s[i].cmd) = "ad"
          /\ Pages!FileOf(s[5].cmd) = "ldap"
      BY DEF Pages!FileOf, Handler
    <3>3. \A i \in 1 .. 5 : i \in 1 .. 4 \/ i = 5
      OBVIOUS
    <3> QED BY ONLY <3>1, <3>2, <3>3 DEF Pages!FilesOf
  <2>2. Pages!FilesOf("ldap") = {"ad", "ldap"}
    <3> DEFINE s == Pages!Commands("ldap")
    <3>1. DOMAIN s = 1 .. 9
      OBVIOUS
    <3>2. /\ \A i \in 1 .. 8 : Pages!FileOf(s[i].cmd) = "ldap"
          /\ Pages!FileOf(s[9].cmd) = "ad"
      BY DEF Pages!FileOf, Handler
    <3>3. \A i \in 1 .. 9 : i \in 1 .. 8 \/ i = 9
      OBVIOUS
    <3> QED BY ONLY <3>1, <3>2, <3>3 DEF Pages!FilesOf
  <2> QED BY <2>1, <2>2 DEF Pages!Directories
<1>4. /\ Pages!FilesOf("adOff") = {"ad"} /\ Pages!FilesOf("ldapOff") = {"ldap"}
      /\ Pages!FilesOf("radiusOff") = {"radius"} /\ Pages!FilesOf("ntpShow") = {}
  BY DEF Pages!FilesOf, Pages!FileOf, Handler
<1> QED BY <1>1, <1>2, <1>3, <1>4

\* What all handlers have in common.
LEMMA HandlerFacts ==
    ASSUME NEW c \in Cmds
    PROVE  /\ Pages!FileOf(c) \in Pages!Files /\ Pages!FileOf(c) = Handler(c).file
           /\ Handler(c).from \in {"stack", "zero", "file", "none"}
           /\ Handler(c).from = "none" <=> c = "GET_NTP"
           /\ Handler(c).publishes => Pages!FileOf(c) \in Publishing
           /\ c = "GET_NTP" => Pages!FileOf(c) = "ntp" /\ ~Handler(c).publishes
           /\ Pages!FileOf(c) = "ldap" \/ Pages!FileOf(c) = "ad" =>
                  (Handler(c).from = "zero" <=> c \in {"AD_ENABLE", "LDAP_ENABLE"})
           /\ c = "SMTP_PRIMARY" \/ c = "SMTP_SENDER" => Pages!FileOf(c) = "smtp"
           /\ c = "AD_IP_PWD" => Pages!FileOf(c) = "ad"
           /\ c = "RADIUS_DISABLE" <=> Pages!FileOf(c) = "radius" /\ Handler(c).from = "zero"
<1>1. Pages!FileOf(c) = Handler(c).file
  BY DEF Pages!FileOf, Handler
<1> USE <1>1, HandlersAre, FieldsAre DEF Pages!Setter, Pages!Publisher, Publishing
<1>2. CASE c \in {"SMTP_SENDER", "SMTP_PRIMARY", "SMTP_SECONDARY", "SSL_1", "SSL_2"}
  BY <1>2
<1>3. CASE c \in {"AD_ENABLE", "AD_IP_PWD", "AD_DOMAIN", "AD_USERNAME"}
  BY <1>3
<1>4. CASE c \in {"LDAP_ENABLE", "LDAP_IP", "LDAP_PORT", "LDAP_SEARCHBASE", "LDAP_BINDDN",
                  "LDAP_PASSWORD", "LDAP_SSL", "LDAP_TIMELIMIT"}
  BY <1>4
<1>5. CASE c \in {"RADIUS", "RADIUS_DISABLE", "NTP_AUTO", "GET_NTP"}
  BY <1>5
<1> QED BY <1>2, <1>3, <1>4, <1>5

\* The files the publishers make.
LEMMA PublishedAre ==
    /\ Pages!Published("smtp").target = "smtp" /\ Pages!Published("ad").target = "nslcd"
    /\ Pages!Published("ldap").target = "nslcd" /\ Pages!Published("radius").target = "radius"
    /\ \A f \in Publishing : Pages!Published(f).target \in Targets
  BY DEF Pages!Published, Pages!write_smtp_config_to_file, Pages!write_ad_to_file,
         Pages!write_ldap_to_nslcd, Publishing, Targets

\* The commands of the pages as a set for each.
LEMMA SentBy ==
    ASSUME NEW p \in Pages!Pages, NEW n \in 1 .. Len(Pages!Commands(p))
    PROVE  /\ p = "smtp" => Current(p, n).cmd \in Pages!Fields["smtp"]
           /\ p = "ssl" => Current(p, n).cmd \in Pages!Fields["ssl"]
           /\ p = "ad" => Current(p, n).cmd \in Pages!Fields["ad"] \cup {"LDAP_ENABLE"}
           /\ p = "ldap" => Current(p, n).cmd \in Pages!Fields["ldap"] \cup {"AD_ENABLE"}
           /\ p = "radius" => Current(p, n).cmd \in {"RADIUS", "RADIUS_DISABLE"}
           /\ p = "ntp" => Current(p, n).cmd = "NTP_AUTO"
           /\ p = "adOff" => Current(p, n) = Pages!Off("AD_ENABLE")
           /\ p = "ldapOff" => Current(p, n) = Pages!Off("LDAP_ENABLE")
           /\ p = "radiusOff" => Current(p, n).cmd = "RADIUS_DISABLE"
           /\ p = "ntpShow" => Current(p, n).cmd = "GET_NTP"
<1> USE CommandsAre, PagesAre, FieldsAre DEF Current
<1>1. CASE p = "smtp"
  BY <1>1 DEF Pages!On, Pages!Off
<1>6. CASE p = "ssl"
  BY <1>6 DEF Pages!On, Pages!Off
<1>2. CASE p = "ad"
  BY <1>2 DEF Pages!On, Pages!Off
<1>3. CASE p = "ldap"
  BY <1>3 DEF Pages!On, Pages!Off
<1>4. CASE p \in {"radius", "ntp"}
  BY <1>4 DEF Pages!On, Pages!Off
<1>5. CASE p = "adOff"
  BY <1>5
<1>7. CASE p = "ldapOff"
  BY <1>7
<1>8. CASE p = "radiusOff"
  BY <1>8 DEF Pages!On, Pages!Off
<1>9. CASE p = "ntpShow"
  BY <1>9 DEF Pages!On, Pages!Off
<1> QED BY <1>1, <1>2, <1>3, <1>4, <1>5, <1>6, <1>7, <1>8, <1>9

\* A page changes only its own files and those made from them; pages that are
\* not those of the directories can only disable one.
LEMMA CommandFacts ==
    ASSUME NEW p \in Pages!Pages, NEW n \in 1 .. Len(Pages!Commands(p))
    PROVE  LET c == Current(p, n) IN
           /\ c.cmd \in Cmds
           /\ c.cmd = "GET_NTP" <=> p = "ntpShow"
           /\ Pages!FileOf(c.cmd) \in Pages!Directories /\ p \notin Pages!Directories
                  => Handler(c.cmd).from = "zero" /\ ~c.on /\ ~Handler(c.cmd).publishes
           /\ \A f \in Pages!Files : Touches(c.cmd, f) => f \in Pages!FilesOf(p)
<1> DEFINE c == Current(p, n)
<1>1. c.cmd \in Cmds /\ (c.cmd = "GET_NTP" <=> p = "ntpShow")
  BY SentBy, HandlersAre, FieldsAre DEF Pages!Off
<1>2. ASSUME Pages!FileOf(c.cmd) \in Pages!Directories, p \notin Pages!Directories
      PROVE  Handler(c.cmd).from = "zero" /\ ~c.on /\ ~Handler(c.cmd).publishes
  <2>1. \A x \in Cmds : Pages!FileOf(x) = Handler(x).file
    BY HandlerFacts
  <2>2. p \in {"adOff", "ldapOff"}
    BY <1>1, <1>2, <2>1, SentBy, HandlersAre, FieldsAre
       DEF Pages!Directories, Pages!Setter, Pages!Publisher, Pages!Off
  <2>3. c = Pages!Off("AD_ENABLE") \/ c = Pages!Off("LDAP_ENABLE")
    BY <2>2, SentBy
  <2> QED BY <2>3, HandlersAre DEF Pages!Off, Pages!Setter
<1>3. ASSUME NEW f \in Pages!Files, Touches(c.cmd, f) PROVE f \in Pages!FilesOf(p)
  <2>1. p # "ntpShow" /\ c.cmd # "GET_NTP"
    BY <1>1, <1>3, HandlerFacts DEF Touches
  <2>2. Pages!FileOf(c.cmd) \in Pages!FilesOf(p)
    <3>1. n \in DOMAIN Pages!Commands(p)
      BY CommandsAre, PagesAre, FieldsAre
    <3> QED BY <2>1, <3>1 DEF Pages!FilesOf, Current
  <2>3. CASE Pages!FileOf(c.cmd) = f
    BY <2>2, <2>3
  <2>4. CASE Pages!FileOf(c.cmd) # f
    <3>1. Pages!FileOf(c.cmd) \in Pages!Directories /\ f \in Pages!Directories /\ Handler(c.cmd).publishes
      BY <1>1, <1>3, <2>4, HandlerFacts, PublishedAre DEF Touches, Publishing, Pages!Directories
    <3>2. p \in Pages!Directories
      BY <1>2, <3>1
    <3> QED BY <3>1, <3>2, PagesAre
  <2> QED BY <2>3, <2>4
<1> QED BY <1>1, <1>2, <1>3

-----------------------------------------------------------------------------
(* Layer 1: the steps of the web server.                                   *)

\* Every page sends something.
LEMMA PagesSend == ASSUME NEW p \in Pages!Pages PROVE Len(Pages!Commands(p)) \in Nat \ {0}
<1>1. /\ Len(Pages!Commands("smtp")) = 3 /\ Len(Pages!Commands("ssl")) = 2
      /\ Len(Pages!Commands("ad")) = 5 /\ Len(Pages!Commands("ldap")) = 9
      /\ Len(Pages!Commands("radius")) = 2 /\ Len(Pages!Commands("ntp")) = 1
      /\ Len(Pages!Commands("adOff")) = 1 /\ Len(Pages!Commands("ldapOff")) = 1
      /\ Len(Pages!Commands("radiusOff")) = 1 /\ Len(Pages!Commands("ntpShow")) = 1
  BY PagesAre
<1>2. p \in {"smtp", "ssl", "ad", "ldap", "radius", "ntp", "adOff", "ldapOff", "radiusOff", "ntpShow"}
  BY FieldsAre
<1>3. Len(Pages!Commands(p)) \in {1, 2, 3, 5, 9}
  BY <1>1, <1>2
<1> QED BY <1>3

\* The values a web server that starts, or dies, is reset to.
LEMMA WebResets ==
    /\ \A s \in {Pages!Idle, Pages!Down} :
           /\ s \in [pc : {"idle", "call", "wait", "finish", "down"}, page : Pages!Pages,
                     save : Nat, next : Nat, quiet : BOOLEAN]
           /\ s.page = "ntpShow" /\ s.next = 1 /\ ~s.quiet
    /\ Pages!Idle.pc = "idle" /\ Pages!Down.pc = "down"
    /\ 1 \in 1 .. Len(Pages!Commands("ntpShow"))
    /\ Pages!FilesOf("ntpShow") = {}
<1>1. "ntpShow" \in Pages!Pages
  BY FieldsAre
<1>2. /\ Pages!Idle \in [pc : {"idle", "call", "wait", "finish", "down"}, page : Pages!Pages,
                         save : Nat, next : Nat, quiet : BOOLEAN]
      /\ Pages!Idle.page = "ntpShow" /\ Pages!Idle.next = 1 /\ Pages!Idle.pc = "idle"
  BY <1>1 DEF Pages!Idle
<1>3. ~Pages!Idle.quiet
  BY DEF Pages!Idle
<1>4. /\ Pages!Down \in [pc : {"idle", "call", "wait", "finish", "down"}, page : Pages!Pages,
                         save : Nat, next : Nat, quiet : BOOLEAN]
      /\ Pages!Down.page = "ntpShow" /\ Pages!Down.next = 1 /\ Pages!Down.pc = "down"
      /\ Pages!Down.quiet = Pages!Idle.quiet
  BY <1>2 DEF Pages!Down
<1>5. 1 \in 1 .. Len(Pages!Commands("ntpShow"))
  BY <1>1, PagesSend
<1>6. Pages!FilesOf("ntpShow") = {}
  BY PagesAre
<1> QED BY <1>2, <1>3, <1>4, <1>5, <1>6

\* The parts of the web server's state.
LEMMA WebParts ==
    ASSUME PagesTypes
    PROVE  /\ p_web.page \in Pages!Pages /\ p_web.save \in Nat
           /\ p_web.next \in 1 .. Len(Pages!Commands(p_web.page)) /\ p_web.next \in Nat \ {0}
           /\ p_web.pc \in {"idle", "call", "wait", "finish", "down"}
  BY DEF PagesTypes

\* A web server that starts has no command about.
LEMMA WebStartControl == PagesControl /\ Pages!WebStart => PagesControl'
<1> SUFFICES ASSUME PagesControl, Pages!WebStart PROVE PagesControl'
  OBVIOUS
<1> USE DEF Pages!WebStart
<1>1. PagesTypes'
  BY WebResets DEF PagesControl, PagesTypes
<1>2. OwnIsCurrent'
  BY DEF PagesControl, OwnIsCurrent, IsCurrent
<1>3. QuietIsAlone'
  BY WebResets DEF QuietIsAlone
<1>4. SavedIsLeftAlone'
  BY WebResets DEF PagesControl, SavedIsLeftAlone
<1> QED BY <1>1, <1>2, <1>3, <1>4 DEF PagesControl

\* A page that starts forgets what was saved of its files; it is quiet when
\* nothing is about.
LEMMA StartPageControl == PagesControl /\ Pages!StartPage => PagesControl'
<1> SUFFICES ASSUME PagesControl, Pages!StartPage PROVE PagesControl'
  OBVIOUS
<1>1. PICK p \in Pages!Pages :
        /\ p_web' = [pc |-> "call", page |-> p, save |-> p_saves + 1, next |-> 1,
                     quiet |-> p_queue = <<>> /\ p_workers = {} /\ (p = "smtp" => p_redfish)]
        /\ p_saved' = [f \in Pages!Files |-> IF f \in Pages!FilesOf(p) THEN 0 ELSE p_saved[f]]
  BY DEF Pages!StartPage
<1>2. /\ p_web.pc = "idle" /\ p_saves' = p_saves + 1 /\ p_saves \in Nat
      /\ UNCHANGED <<p_edge, p_redfish, p_queue, p_workers, p_files, p_published, p_broken>>
  BY DEF Pages!StartPage, PagesControl, PagesTypes
<1>3. /\ p_web'.pc = "call" /\ p_web'.page = p /\ p_web'.next = 1
      /\ p_web'.quiet => p_queue = <<>> /\ p_workers = {} /\ (p = "smtp" => p_redfish)
  BY <1>1
<1>4. PagesTypes'
  <2>1. 1 \in 1 .. Len(Pages!Commands(p))
    BY PagesSend
  <2>2. p_web' \in [pc : {"idle", "call", "wait", "finish", "down"}, page : Pages!Pages,
                    save : Nat, next : Nat, quiet : BOOLEAN]
    <3> DEFINE quiet == p_queue = <<>> /\ p_workers = {} /\ (p = "smtp" => p_redfish)
    <3>1. PICK q \in BOOLEAN : q = quiet
      BY Zenon
    <3>2. p_web' = [pc |-> "call", page |-> p, save |-> p_saves + 1, next |-> 1, quiet |-> q]
      BY <1>1, <3>1
    <3> HIDE DEF quiet
    <3> QED BY <3>2, <1>2
  <2>3. p_saved' \in [Pages!Files -> Nat]
    BY <1>1 DEF PagesControl, PagesTypes
  <2> QED BY <1>2, <1>3, <2>1, <2>2, <2>3 DEF PagesControl, PagesTypes
<1>5. OwnIsCurrent'
  BY <1>2 DEF PagesControl, OwnIsCurrent, IsCurrent
<1>6. QuietIsAlone'
  BY <1>2, <1>3 DEF QuietIsAlone
<1>7. SavedIsLeftAlone'
  BY <1>1, <1>2, <1>3 DEF PagesControl, SavedIsLeftAlone
<1> QED BY <1>4, <1>5, <1>6, <1>7 DEF PagesControl

\* NTP by hand renames a file and forgets what was saved in it.
LEMMA NtpManualControl == PagesControl /\ Pages!NtpManual => PagesControl'
<1> SUFFICES ASSUME PagesControl, Pages!NtpManual PROVE PagesControl'
  OBVIOUS
<1>1. /\ p_files' = IF p_files.ntp = Pages!Absent THEN p_files
                    ELSE [p_files EXCEPT !.ntpbak = p_files.ntp, !.ntp = Pages!Absent]
      /\ p_saved' = [p_saved EXCEPT !.ntp = 0] /\ p_saves' = p_saves + 1
      /\ UNCHANGED <<p_web, p_edge, p_redfish, p_queue, p_workers, p_published, p_broken>>
  BY DEF Pages!NtpManual
<1>2. "ntp" \in Pages!Files /\ "ntpbak" \notin Pages!Files
  BY FieldsAre
<1>3. \A f \in Pages!Files : p_saved'[f] # 0 => p_saved[f] # 0
  BY <1>1, <1>2 DEF PagesControl, PagesTypes
<1>4. PagesTypes'
  <2>1. p_saved' \in [Pages!Files -> Nat] /\ p_saves' \in Nat
    BY <1>1, <1>2 DEF PagesControl, PagesTypes
  <2>2. /\ p_files' \in [Pages!Files \cup {"ntpbak"} -> FileStates]
        /\ \A f \in Pages!Files : p_files'[f] \in {p_files[f], Pages!Absent}
        /\ p_files'.ntpbak \in {p_files.ntpbak, p_files.ntp}
    BY <1>1, <1>2 DEF PagesControl, PagesTypes, FileStates
  <2>3. /\ \A f \in Pages!Files : Pages!IsRecord(p_files'[f]) => p_files'[f] \in Contents(f)
        /\ Pages!IsRecord(p_files'.ntpbak) => p_files'.ntpbak \in Contents("ntp")
    BY <2>2, <1>2 DEF PagesControl, PagesTypes, Pages!IsRecord
  <2> QED BY <1>1, <2>1, <2>2, <2>3 DEF PagesControl, PagesTypes
<1> QED BY <1>1, <1>3, <1>4 DEF PagesControl, OwnIsCurrent, IsCurrent, QuietIsAlone, SavedIsLeftAlone

\* A request at the end of the queue.
LEMMA QueueAppend ==
    ASSUME NEW S, NEW q \in Seq(S), NEW e \in S
    PROVE  /\ Append(q, e) \in Seq(S)
           /\ \A i \in DOMAIN Append(q, e) :
                  \/ i \in DOMAIN q /\ Append(q, e)[i] = q[i]
                  \/ i = Len(q) + 1 /\ Append(q, e)[i] = e
<1>1. /\ Append(q, e) \in Seq(S) /\ Len(Append(q, e)) = Len(q) + 1
      /\ \A i \in 1 .. Len(q) : Append(q, e)[i] = q[i]
      /\ Append(q, e)[Len(q) + 1] = e
  BY AppendProperties
<1>2. Len(q) \in Nat /\ DOMAIN q = 1 .. Len(q) /\ DOMAIN Append(q, e) = 1 .. Len(q) + 1
  BY <1>1, LenProperties
<1> QED BY <1>1, <1>2

\* The command that is sent becomes the only one of the web server.
LEMMA SendCommandControl == PagesControl /\ Pages!SendCommand => PagesControl'
<1> SUFFICES ASSUME PagesControl, Pages!SendCommand PROVE PagesControl'
  OBVIOUS
<1> DEFINE c == Current(p_web.page, p_web.next)
<1>1. PICK e : /\ e = [cmd |-> c.cmd, value |-> IF c.on THEN p_web.save ELSE 0, own |-> TRUE]
               /\ p_queue' = Append(p_queue, e)
  BY DEF Pages!SendCommand, Current
<1>2. /\ p_web.pc = "call" /\ p_web' = [p_web EXCEPT !.pc = "wait"]
      /\ UNCHANGED <<p_edge, p_redfish, p_workers, p_files, p_published, p_saves, p_saved, p_broken>>
  BY DEF Pages!SendCommand
<1>3. /\ p_web.page \in Pages!Pages /\ p_web.next \in 1 .. Len(Pages!Commands(p_web.page))
      /\ p_web'.page = p_web.page /\ p_web'.next = p_web.next /\ p_web'.save = p_web.save
      /\ p_web'.quiet = p_web.quiet /\ p_web'.pc = "wait" /\ p_web.save \in Nat
      /\ c.cmd \in Cmds /\ \A f \in Pages!Files : Touches(c.cmd, f) => f \in Pages!FilesOf(p_web.page)
  <2>1. p_web.page \in Pages!Pages /\ p_web.next \in 1 .. Len(Pages!Commands(p_web.page))
    BY WebParts DEF PagesControl
  <2> QED BY <1>2, <2>1, CommandFacts DEF PagesControl, PagesTypes
<1>4. /\ e.cmd = c.cmd /\ e.value = (IF c.on THEN p_web.save ELSE 0) /\ e.own
      /\ e \in [cmd : Cmds, value : Nat, own : BOOLEAN]
  <2>1. PICK v \in Nat : v = IF c.on THEN p_web.save ELSE 0
    BY <1>3
  <2>2. e = [cmd |-> c.cmd, value |-> v, own |-> TRUE]
    BY <1>1, <2>1
  <2> HIDE DEF c
  <2> QED BY <1>3, <2>1, <2>2
<1>5. /\ p_queue' \in Seq([cmd : Cmds, value : Nat, own : BOOLEAN])
      /\ \A i \in DOMAIN p_queue' : \/ i \in DOMAIN p_queue /\ p_queue'[i] = p_queue[i]
                                    \/ i = Len(p_queue) + 1 /\ p_queue'[i] = e
  BY <1>1, <1>4, QueueAppend DEF PagesControl, PagesTypes
<1>6. /\ \A i \in DOMAIN p_queue : ~p_queue[i].own
      /\ \A w \in p_workers : ~w.own
  BY <1>2 DEF PagesControl, OwnIsCurrent, IsCurrent
<1>7. PagesTypes'
  BY <1>2, <1>3, <1>5 DEF PagesControl, PagesTypes
<1>8. OwnIsCurrent'
  <2>1. IsCurrent(e)'
    BY <1>3, <1>4 DEF IsCurrent
  <2>2. \A i \in DOMAIN p_queue' : p_queue'[i].own => p_queue'[i] = e /\ i = Len(p_queue) + 1
    BY <1>5, <1>6
  <2> QED BY <1>2, <1>6, <2>1, <2>2 DEF OwnIsCurrent
<1>9. QuietIsAlone'
  BY <1>2, <1>3, <1>4, <1>5 DEF PagesControl, QuietIsAlone
<1>10. SavedIsLeftAlone'
  BY <1>2, <1>3, <1>4, <1>5 DEF PagesControl, SavedIsLeftAlone
<1> QED BY <1>7, <1>8, <1>9, <1>10 DEF PagesControl

\* A page is answered when none of its commands is left; a quiet one leaves
\* nothing about at all.
LEMMA NothingAtFinish ==
    ASSUME PagesControl, p_web.pc = "finish"
    PROVE  /\ \A i \in DOMAIN p_queue : ~p_queue[i].own
           /\ \A w \in p_workers : ~w.own
           /\ p_web.quiet => DOMAIN p_queue = {} /\ p_workers = {}
  BY DEF PagesControl, OwnIsCurrent, IsCurrent, QuietIsAlone

\* What is recorded as saved when a page is answered is of a page nothing
\* disturbed.
LEMMA FinishPageControl == PagesControl /\ Pages!FinishPage => PagesControl'
<1> SUFFICES ASSUME PagesControl, Pages!FinishPage PROVE PagesControl'
  OBVIOUS
<1>1. /\ p_web.pc = "finish" /\ p_web' = Pages!Idle
      /\ p_saved' = IF p_web.page \in Pages!Files /\ p_web.quiet
                    THEN [p_saved EXCEPT ![p_web.page] = p_web.save] ELSE p_saved
      /\ UNCHANGED <<p_edge, p_redfish, p_queue, p_workers, p_files, p_saves>>
  BY DEF Pages!FinishPage
<1>2. p_broken' \in BOOLEAN /\ p_published' = [t \in Targets |-> p_published'[t]]
  <2>1. p_broken' \in BOOLEAN
    BY Zenon DEF Pages!FinishPage
  <2>2. p_published' = [p_published EXCEPT !.radius = Pages!Absent] \/ p_published' = p_published
    BY DEF Pages!FinishPage
  <2>3. p_published = [t \in Targets |-> p_published[t]]
    BY DEF PagesControl, PagesTypes
  <2> QED BY <2>1, <2>2, <2>3 DEF Targets
<1>3. PagesTypes'
  <2>1. p_saved' \in [Pages!Files -> Nat]
    BY <1>1 DEF PagesControl, PagesTypes
  <2> QED BY <1>1, <1>2, <2>1, WebResets DEF PagesControl, PagesTypes
<1>4. SavedIsLeftAlone'
  BY <1>1, NothingAtFinish, WebResets DEF PagesControl, PagesTypes, SavedIsLeftAlone
<1> QED BY <1>1, <1>3, <1>4, NothingAtFinish, WebResets
        DEF PagesControl, OwnIsCurrent, QuietIsAlone

\* A function on 1 .. n is a sequence.
LEMMA FunctionIsSeq == ASSUME NEW S, NEW n \in Nat, NEW s \in [1 .. n -> S] PROVE s \in Seq(S)
  BY SeqDef

\* The commands of a web server that dies become nobody's.
LEMMA WebDieControl == PagesControl /\ Pages!WebDie => PagesControl'
<1> SUFFICES ASSUME PagesControl, Pages!WebDie PROVE PagesControl'
  OBVIOUS
<1>1. /\ p_web' = Pages!Down /\ p_workers' = Pages!Disowned(p_workers)
      /\ p_queue' = [i \in DOMAIN p_queue |-> [p_queue[i] EXCEPT !.own = FALSE]]
      /\ UNCHANGED <<p_edge, p_redfish, p_files, p_published, p_saves, p_saved>>
  BY DEF Pages!WebDie
<1>2. p_broken' \in BOOLEAN
  BY Zenon DEF Pages!WebDie, PagesControl, PagesTypes
<1>3. PICK no \in BOOLEAN : no = FALSE
  OBVIOUS
<1>4. /\ p_queue' \in Seq([cmd : Cmds, value : Nat, own : BOOLEAN])
      /\ DOMAIN p_queue' = DOMAIN p_queue
      /\ \A i \in DOMAIN p_queue : p_queue'[i].cmd = p_queue[i].cmd /\ ~p_queue'[i].own
  <2>1. p_queue \in [1 .. Len(p_queue) -> [cmd : Cmds, value : Nat, own : BOOLEAN]] /\ Len(p_queue) \in Nat
    BY LenProperties DEF PagesControl, PagesTypes
  <2>2. p_queue' = [i \in DOMAIN p_queue |-> [p_queue[i] EXCEPT !.own = no]]
    BY <1>1, <1>3
  <2>3. p_queue' \in [1 .. Len(p_queue) -> [cmd : Cmds, value : Nat, own : BOOLEAN]]
    BY <2>1, <2>2
  <2>4. p_queue' \in Seq([cmd : Cmds, value : Nat, own : BOOLEAN])
    BY <2>1, <2>3, FunctionIsSeq
  <2> QED BY <1>3, <2>1, <2>2, <2>4
<1>5. \A v \in p_workers' : WorkerTyped(v) /\ ~v.own /\ \E w \in p_workers : v.cmd = w.cmd
  <2> SUFFICES ASSUME NEW v \in p_workers'
               PROVE  WorkerTyped(v) /\ ~v.own /\ \E w \in p_workers : v.cmd = w.cmd
    OBVIOUS
  <2>1. PICK w \in p_workers : v = [w EXCEPT !.own = no]
    BY <1>1, <1>3 DEF Pages!Disowned
  <2>2. WorkerTyped(w)
    BY DEF PagesControl, PagesTypes
  <2> QED BY <1>3, <2>1, <2>2 DEF WorkerTyped
<1>6. PagesTypes'
  BY <1>1, <1>2, <1>4, <1>5, WebResets DEF PagesControl, PagesTypes
<1>7. SavedIsLeftAlone'
  BY <1>1, <1>4, <1>5, WebResets DEF PagesControl, SavedIsLeftAlone
<1> QED BY <1>1, <1>4, <1>5, <1>6, <1>7, WebResets DEF PagesControl, OwnIsCurrent, QuietIsAlone

\* The web server can die before it sends the time limit.
LEMMA TimelimitControl == PagesControl /\ Pages!SetTimelimitFails => PagesControl'
<1> SUFFICES ASSUME PagesControl, Pages!SetTimelimitFails PROVE PagesControl'
  OBVIOUS
<1>1. /\ p_web.pc = "call" /\ p_web' = Pages!Down /\ p_broken' \in BOOLEAN
      /\ UNCHANGED <<p_edge, p_redfish, p_queue, p_workers, p_files, p_published, p_saves, p_saved>>
  BY DEF Pages!SetTimelimitFails
<1>2. PagesTypes'
  BY <1>1, WebResets DEF PagesControl, PagesTypes
<1>3. SavedIsLeftAlone'
  BY <1>1, WebResets DEF PagesControl, SavedIsLeftAlone
<1>4. OwnIsCurrent' /\ QuietIsAlone'
  BY <1>1, WebResets DEF PagesControl, OwnIsCurrent, IsCurrent, QuietIsAlone
<1> QED BY <1>2, <1>3, <1>4 DEF PagesControl

-----------------------------------------------------------------------------
(* Layer 1: the steps of KETI-Edge.                                        *)

\* What follows the head of a queue.
LEMMA QueueTail ==
    ASSUME NEW S, NEW q \in Seq(S), q # <<>>
    PROVE  /\ 1 \in DOMAIN q /\ Head(q) = q[1] /\ q[1] \in S /\ Tail(q) \in Seq(S)
           /\ \A i \in DOMAIN Tail(q) : i \in Nat /\ i + 1 \in DOMAIN q /\ Tail(q)[i] = q[i + 1]
<1>1. Len(q) \in Nat \ {0} /\ DOMAIN q = 1 .. Len(q)
  BY EmptySeq, LenProperties
<1>2. /\ Tail(q) \in Seq(S) /\ Len(Tail(q)) = Len(q) - 1
      /\ \A i \in 1 .. Len(Tail(q)) : Tail(q)[i] = q[i + 1]
  BY HeadTailProperties
<1>3. DOMAIN Tail(q) = 1 .. Len(q) - 1
  BY <1>2, LenProperties
<1>4. 1 \in DOMAIN q /\ q[1] \in S
  BY <1>1, ElementOfSeq
<1>5. Head(q) = q[1]
  OBVIOUS
<1>6. \A i \in DOMAIN Tail(q) : i \in Nat /\ i + 1 \in DOMAIN q
  BY <1>1, <1>3
<1> QED BY <1>2, <1>3, <1>4, <1>5, <1>6

\* The thread made for a request stands for it.
LEMMA TakeControl == PagesControl /\ Pages!Take => PagesControl'
<1> SUFFICES ASSUME PagesControl, Pages!Take PROVE PagesControl'
  OBVIOUS
<1>1. PICK v : /\ v = [cmd |-> Head(p_queue).cmd, value |-> Head(p_queue).value,
                       own |-> Head(p_queue).own, at |-> "begin", buf |-> Pages!Empty]
               /\ p_workers' = p_workers \cup {v}
  BY DEF Pages!Take
<1>2. /\ p_queue # <<>> /\ p_queue' = Tail(p_queue)
      /\ UNCHANGED <<p_web, p_edge, p_redfish, p_files, p_published, p_saves, p_saved, p_broken>>
      /\ p_queue \in Seq([cmd : Cmds, value : Nat, own : BOOLEAN])
  BY DEF Pages!Take, PagesControl, PagesTypes
<1>3. /\ 1 \in DOMAIN p_queue /\ Head(p_queue) = p_queue[1]
      /\ p_queue[1] \in [cmd : Cmds, value : Nat, own : BOOLEAN]
      /\ p_queue' \in Seq([cmd : Cmds, value : Nat, own : BOOLEAN])
      /\ \A i \in DOMAIN p_queue' : i \in Nat /\ i + 1 \in DOMAIN p_queue /\ p_queue'[i] = p_queue[i + 1]
  BY <1>2, QueueTail
<1>4. /\ v.cmd = p_queue[1].cmd /\ v.value = p_queue[1].value /\ v.own = p_queue[1].own
      /\ v.at = "begin" /\ WorkerTyped(v)
  <2>1. Pages!Empty \in FileStates
    BY DEF FileStates
  <2>2. v = [cmd |-> p_queue[1].cmd, value |-> p_queue[1].value, own |-> p_queue[1].own,
             at |-> "begin", buf |-> Pages!Empty]
    BY <1>1, <1>3
  <2> QED BY <1>3, <2>1, <2>2 DEF WorkerTyped
<1>5. \A i \in DOMAIN p_queue' : i + 1 # 1
  BY <1>3
<1>6. PagesTypes'
  BY <1>1, <1>2, <1>3, <1>4 DEF PagesControl, PagesTypes
<1>7. OwnIsCurrent'
  <2>1. /\ \A i \in DOMAIN p_queue : p_queue[i].own => IsCurrent(p_queue[i])
        /\ \A w \in p_workers : w.own => IsCurrent(w)
        /\ \A i, j \in DOMAIN p_queue : p_queue[i].own /\ p_queue[j].own => i = j
        /\ \A w, x \in p_workers : w.own /\ x.own => w = x
        /\ \A i \in DOMAIN p_queue, w \in p_workers : ~(p_queue[i].own /\ w.own)
    BY DEF PagesControl, OwnIsCurrent
  <2>2. v.own => IsCurrent(v)
    BY <1>3, <1>4, <2>1, ZenonT(60) DEF IsCurrent
  <2>3. \A r : IsCurrent(r)' <=> IsCurrent(r)
    BY <1>2 DEF IsCurrent
  <2>4. \A i \in DOMAIN p_queue' : p_queue'[i].own => IsCurrent(p_queue'[i])
    BY <1>3, <2>1
  <2>5. \A w \in p_workers' : w.own => IsCurrent(w)
    BY <1>1, <2>1, <2>2
  <2>6. \A i, j \in DOMAIN p_queue' : p_queue'[i].own /\ p_queue'[j].own => i = j
    <3> SUFFICES ASSUME NEW i \in DOMAIN p_queue', NEW j \in DOMAIN p_queue',
                        p_queue'[i].own, p_queue'[j].own
                 PROVE  i = j
      OBVIOUS
    <3>1. i + 1 = j + 1
      BY <1>3, <2>1
    <3> QED BY <1>3, <3>1
  <2>7. \A w, x \in p_workers' : w.own /\ x.own => w = x
    BY <1>1, <1>3, <1>4, <2>1
  <2>8. \A i \in DOMAIN p_queue', w \in p_workers' : ~(p_queue'[i].own /\ w.own)
    BY <1>1, <1>3, <1>4, <1>5, <2>1
  <2>9. \A r : r \in {p_queue'[i] : i \in DOMAIN p_queue'} \cup p_workers' /\ r.own => IsCurrent(r)'
    BY <2>3, <2>4, <2>5
  <2> QED BY <2>6, <2>7, <2>8, <2>9 DEF OwnIsCurrent
<1>8. QuietIsAlone'
  BY <1>1, <1>2, <1>3, <1>4 DEF PagesControl, QuietIsAlone
<1>9. SavedIsLeftAlone'
  BY <1>1, <1>2, <1>3, <1>4 DEF PagesControl, SavedIsLeftAlone
<1> QED BY <1>6, <1>7, <1>8, <1>9 DEF PagesControl

\* A thread that goes on does so for the same command.
LEMMA MovedControl ==
    ASSUME PagesControl, NEW w \in p_workers, NEW at, NEW buf,
           p_workers' = Pages!Moved(w, at, buf), WorkerTyped([w EXCEPT !.at = at, !.buf = buf]),
           UNCHANGED <<p_web, p_redfish, p_queue>>,
           \A f \in Pages!Files : p_saved'[f] # 0 => p_saved[f] # 0
    PROVE  /\ \A v \in p_workers' : WorkerTyped(v)
           /\ OwnIsCurrent' /\ QuietIsAlone' /\ SavedIsLeftAlone'
<1>1. PICK v : v = [w EXCEPT !.at = at, !.buf = buf]
  OBVIOUS
<1>2. p_workers' = (p_workers \ {w}) \cup {v}
  BY <1>1 DEF Pages!Moved
<1>3. v.cmd = w.cmd /\ v.value = w.value /\ v.own = w.own
  BY <1>1 DEF PagesControl, PagesTypes, WorkerTyped
<1>4. \A x \in p_workers' : WorkerTyped(x)
  BY <1>1, <1>2 DEF PagesControl, PagesTypes
<1>5. OwnIsCurrent'
  BY <1>2, <1>3 DEF PagesControl, OwnIsCurrent, IsCurrent
<1>6. QuietIsAlone' /\ SavedIsLeftAlone'
  BY <1>2, <1>3 DEF PagesControl, QuietIsAlone, SavedIsLeftAlone
<1> QED BY <1>4, <1>5, <1>6

\* What the threads read, and put aside, are contents of files.
LEMMA BuffersAre ==
    /\ \A f \in Pages!Files : Contents(f) \subseteq FileStates
    /\ \A f \in Pages!Files, n \in Nat : Pages!Filled(f, n) \in Contents(f)
    /\ Pages!Empty \in FileStates /\ Pages!Absent \in FileStates
    /\ Pages!Junk \in Nat
    /\ DOMAIN Pages!Absent = {} /\ DOMAIN Pages!Empty = {"truncated"}
    /\ \A f \in Pages!Files : \A b \in Contents(f) : Pages!IsRecord(b)
<1>1. /\ \A f \in Pages!Files, n \in Nat : Pages!Filled(f, n) \in Contents(f)
      /\ Pages!Junk \in Nat
  BY ServiceBoundsAssumption DEF Pages!Filled, Contents, Pages!Junk
<1>2. DOMAIN Pages!Absent = {} /\ DOMAIN Pages!Empty = {"truncated"}
  BY DEF Pages!Absent, Pages!Empty
<1>3. \A f \in Pages!Files : "truncated" \notin Pages!Fields[f] /\ Pages!Fields[f] # {}
  BY FieldsAre
<1>4. \A f \in Pages!Files : \A b \in Contents(f) : DOMAIN b = Pages!Fields[f]
  BY DEF Contents
<1>5. \A f \in Pages!Files : \A b \in Contents(f) : DOMAIN b # {} /\ DOMAIN b # {"truncated"}
  BY <1>3, <1>4
<1>6. \A f \in Pages!Files : \A b \in Contents(f) : b # Pages!Absent /\ b # Pages!Empty
  BY <1>2, <1>5
<1> QED BY <1>1, <1>2, <1>6 DEF FileStates, Pages!IsRecord

\* The parts of a thread.
LEMMA WorkerParts ==
    ASSUME NEW w, WorkerTyped(w), NEW at, NEW buf
    PROVE  LET v == [w EXCEPT !.at = at, !.buf = buf] IN
           /\ w.cmd \in Cmds /\ w.value \in Nat /\ w.own \in BOOLEAN /\ w.buf \in FileStates
           /\ Pages!FileOf(w.cmd) \in Pages!Files
           /\ v.cmd = w.cmd /\ v.value = w.value /\ v.own = w.own /\ v.at = at /\ v.buf = buf
           /\ buf \in FileStates /\ at \in {"begin", "read", "open", "publish", "clear", "fill", "done"}
                 => v \in [cmd : Cmds, value : Nat, own : BOOLEAN, buf : FileStates,
                           at : {"begin", "read", "open", "publish", "clear", "fill", "done"}]
<1>1. w.cmd \in Cmds
  BY DEF WorkerTyped
<1>2. Pages!FileOf(w.cmd) \in Pages!Files
  BY <1>1, HandlerFacts
<1> QED BY <1>1, <1>2 DEF WorkerTyped

\* A thread that goes on is one of those the invariant describes, when what it
\* has read or will write are contents of its file.
LEMMA MovedIsTyped ==
    ASSUME PagesControl, NEW w \in p_workers, NEW at, NEW buf,
           p_workers' = Pages!Moved(w, at, buf),
           at \in {"publish", "clear", "fill", "done", "read", "open"}, buf \in FileStates,
           at \in {"publish", "clear", "fill"} => Handler(w.cmd).publishes,
           at \in {"read", "open"} => buf \in Contents(Pages!FileOf(w.cmd)),
           at = "read" => Handler(w.cmd).from = "file",
           at = "open" => /\ Handler(w.cmd).from # "none"
                          /\ Handler(w.cmd).from = "zero" => buf = Pages!Filled(Pages!FileOf(w.cmd), 0)
    PROVE  WorkerTyped([w EXCEPT !.at = at, !.buf = buf])
<1>1. WorkerTyped(w)
  BY DEF PagesControl, PagesTypes
<1>2. PICK v : v = [w EXCEPT !.at = at, !.buf = buf]
  OBVIOUS
<1>3. /\ v.cmd = w.cmd /\ v.at = at /\ v.buf = buf
      /\ v \in [cmd : Cmds, value : Nat, own : BOOLEAN, buf : FileStates,
                at : {"begin", "read", "open", "publish", "clear", "fill", "done"}]
  BY <1>1, <1>2, WorkerParts, ZenonT(60)
<1>4. WorkerTyped(v)
  BY <1>3 DEF WorkerTyped
<1> QED BY <1>2, <1>4

\* A thread that goes on leaves all of layer 1 but the types of the files.
LEMMA MovedKeeps ==
    ASSUME PagesControl, NEW w \in p_workers, NEW at, NEW buf,
           p_workers' = Pages!Moved(w, at, buf),
           at \in {"publish", "clear", "fill", "done", "read", "open"}, buf \in FileStates,
           at \in {"publish", "clear", "fill"} => Handler(w.cmd).publishes,
           at \in {"read", "open"} => buf \in Contents(Pages!FileOf(w.cmd)),
           at = "read" => Handler(w.cmd).from = "file",
           at = "open" => /\ Handler(w.cmd).from # "none"
                          /\ Handler(w.cmd).from = "zero" => buf = Pages!Filled(Pages!FileOf(w.cmd), 0),
           UNCHANGED <<p_web, p_redfish, p_queue>>,
           \A f \in Pages!Files : p_saved'[f] # 0 => p_saved[f] # 0
    PROVE  /\ \A v \in p_workers' : WorkerTyped(v)
           /\ OwnIsCurrent' /\ QuietIsAlone' /\ SavedIsLeftAlone'
<1>1. WorkerTyped([w EXCEPT !.at = at, !.buf = buf])
  BY MovedIsTyped
<1> QED BY <1>1, MovedControl

\* When KETI-Edge is gone no thread is left, and a quiet page of the mail
\* settings, which need the EventService, is not quiet any more.
LEMMA EdgeGoneControl ==
    ASSUME PagesControl, Pages!EdgeGone,
           UNCHANGED <<p_queue, p_files, p_published, p_saves, p_saved, p_broken>>
    PROVE  PagesControl'
<1>1. p_edge' = FALSE /\ p_redfish' = FALSE /\ p_workers' = {}
  BY DEF Pages!EdgeGone
<1>2. PICK q \in BOOLEAN : q = (p_web.quiet /\ p_web.page # "smtp")
  BY Zenon
<1>3. p_web' = [p_web EXCEPT !.quiet = q]
  BY <1>2 DEF Pages!EdgeGone
<1>4. /\ p_web'.pc = p_web.pc /\ p_web'.page = p_web.page /\ p_web'.next = p_web.next
      /\ p_web'.save = p_web.save /\ p_web'.quiet = q
      /\ p_web' \in [pc : {"idle", "call", "wait", "finish", "down"}, page : Pages!Pages,
                     save : Nat, next : Nat, quiet : BOOLEAN]
  BY <1>3 DEF PagesControl, PagesTypes
<1>5. p_web'.quiet => p_web.quiet /\ p_web.page # "smtp"
  BY <1>2, <1>4
<1>6. p_edge' \in BOOLEAN /\ p_redfish' \in BOOLEAN
  BY <1>1
<1>7. PagesTypes'
  BY <1>1, <1>4, <1>5, <1>6 DEF PagesControl, PagesTypes
<1>8. OwnIsCurrent'
  BY <1>1, <1>4 DEF PagesControl, OwnIsCurrent, IsCurrent
<1>9. QuietIsAlone'
  BY <1>1, <1>4, <1>5 DEF PagesControl, QuietIsAlone
<1>10. SavedIsLeftAlone'
  BY <1>1, <1>4 DEF PagesControl, SavedIsLeftAlone
<1> QED BY <1>7, <1>8, <1>9, <1>10 DEF PagesControl

\* A setter reads its file, or what is on the stack.
LEMMA ReadFileControl ==
    ASSUME PagesControl, NEW w \in p_workers, Pages!ReadFile(w)
    PROVE  PagesControl'
<1> DEFINE f == Pages!FileOf(w.cmd)
<1>1. /\ Handler(w.cmd).from = "file"
      /\ UNCHANGED <<p_queue, p_files, p_published, p_saves, p_saved, p_broken>>
      /\ \/ Pages!EdgeGone
         \/ /\ UNCHANGED <<p_web, p_edge, p_redfish>>
            /\ p_workers' = IF Pages!IsRecord(p_files[f]) THEN Pages!Moved(w, "read", p_files[f])
                            ELSE IF f = "ldap" THEN Pages!Moved(w, "read", Pages!Filled(f, Pages!Junk))
                            ELSE Pages!Moved(w, Pages!AfterSetter(w), w.buf)
  BY DEF Pages!ReadFile, Handler
<1>2. CASE Pages!EdgeGone
  BY <1>1, <1>2, EdgeGoneControl
<1>3. CASE ~Pages!EdgeGone
  <2>1. w.cmd \in Cmds /\ w.buf \in FileStates /\ f \in Pages!Files
    BY WorkerParts DEF PagesControl, PagesTypes
  <2>2. Pages!IsRecord(p_files[f]) => p_files[f] \in Contents(f)
    BY <2>1 DEF PagesControl, PagesTypes
  <2>3. PICK at, buf :
           /\ p_workers' = Pages!Moved(w, at, buf)
           /\ \/ at = "read" /\ buf \in Contents(f)
              \/ at = Pages!AfterSetter(w) /\ buf = w.buf
    BY <1>1, <1>3, <2>1, <2>2, BuffersAre
  <2>4. Pages!AfterSetter(w) \in {"publish", "done"}
        /\ (Pages!AfterSetter(w) = "publish" => Handler(w.cmd).publishes)
    BY DEF Pages!AfterSetter, Handler
  <2>5. at \in {"read", "publish", "done"} /\ buf \in FileStates
    BY <2>1, <2>3, <2>4, BuffersAre
  <2>6. UNCHANGED <<p_web, p_edge, p_redfish>>
    BY <1>1, <1>3
  <2>7. (\A v \in p_workers' : WorkerTyped(v)) /\ OwnIsCurrent' /\ QuietIsAlone' /\ SavedIsLeftAlone'
    <3> HIDE DEF f
    <3>1. f = Pages!FileOf(w.cmd)
      BY DEF f
    <3> QED BY <1>1, <2>3, <2>4, <2>5, <2>6, <3>1, MovedKeeps
  <2> QED BY <1>1, <2>6, <2>7 DEF PagesControl, PagesTypes
<1> QED BY <1>2, <1>3

\* The parts of layer 1 that say what a step of a thread reads from.
LEMMA ThreadParts ==
    ASSUME PagesTypes, NEW w \in p_workers
    PROVE  /\ w.cmd \in Cmds /\ w.buf \in FileStates /\ w.value \in Nat
           /\ Pages!FileOf(w.cmd) \in Pages!Files
           /\ w.at \in {"read", "open"} => w.buf \in Contents(Pages!FileOf(w.cmd))
           /\ Pages!IsRecord(p_files[Pages!FileOf(w.cmd)])
                  => p_files[Pages!FileOf(w.cmd)] \in Contents(Pages!FileOf(w.cmd))
<1>1. WorkerTyped(w)
  BY DEF PagesTypes
<1> QED BY <1>1, WorkerParts DEF PagesTypes, WorkerTyped

\* A file that is written keeps the files contents.
LEMMA FileWritten ==
    ASSUME PagesTypes, NEW f \in Pages!Files, NEW content \in Contents(f) \cup {Pages!Empty},
           p_files' = [p_files EXCEPT ![f] = content]
    PROVE  /\ p_files' \in [Pages!Files \cup {"ntpbak"} -> FileStates]
           /\ \A g \in Pages!Files : Pages!IsRecord(p_files'[g]) => p_files'[g] \in Contents(g)
           /\ Pages!IsRecord(p_files'.ntpbak) => p_files'.ntpbak \in Contents("ntp")
<1>1. content \in FileStates
  BY BuffersAre
<1>2. Pages!IsRecord(content) => content \in Contents(f)
  BY DEF Pages!IsRecord
<1>3. f # "ntpbak"
  BY FieldsAre
<1> QED BY <1>1, <1>2, <1>3 DEF PagesTypes

\* A setter truncates its file.
LEMMA OpenFileControl ==
    ASSUME PagesControl, NEW w \in p_workers, Pages!OpenFile(w)
    PROVE  PagesControl'
<1> DEFINE f == Pages!FileOf(w.cmd)
           from == Handler(w.cmd).from
<1>1. /\ w.at = "read" \/ (w.at = "begin" /\ from \in {"stack", "zero"})
      /\ p_files' = [p_files EXCEPT ![f] = Pages!Empty]
      /\ UNCHANGED <<p_web, p_edge, p_redfish, p_queue, p_published, p_saves, p_saved, p_broken>>
  BY DEF Pages!OpenFile, Handler
<1>2. /\ w.cmd \in Cmds /\ f \in Pages!Files
      /\ w.at \in {"read", "open"} => w.buf \in Contents(f)
      /\ w.at = "read" => from = "file"
  BY ThreadParts DEF PagesControl, PagesTypes, WorkerTyped
<1>3. PICK at, buf :
        /\ p_workers' = Pages!Moved(w, at, buf)
        /\ \/ at = "done" /\ buf = Pages!Empty
           \/ at = "open" /\ buf = CASE from = "stack" -> Pages!Filled(f, Pages!Junk)
                                     [] from = "zero"  -> Pages!Filled(f, 0)
                                     [] from = "file"  -> w.buf
  BY DEF Pages!OpenFile, Handler
<1>4. at \in {"open", "done"} /\ buf \in FileStates
  BY <1>1, <1>2, <1>3, BuffersAre
<1>5. at = "open" => /\ from # "none" /\ buf \in Contents(f)
                     /\ from = "zero" => buf = Pages!Filled(f, 0)
  BY <1>1, <1>2, <1>3, BuffersAre
<1>6. (\A v \in p_workers' : WorkerTyped(v)) /\ OwnIsCurrent' /\ QuietIsAlone' /\ SavedIsLeftAlone'
  BY <1>1, <1>3, <1>4, <1>5, MovedKeeps
<1> QED BY <1>1, <1>2, <1>6, FileWritten DEF PagesControl, PagesTypes

\* A setter writes its file.
LEMMA WriteFileControl ==
    ASSUME PagesControl, NEW w \in p_workers, Pages!WriteFile(w)
    PROVE  PagesControl'
<1> DEFINE f == Pages!FileOf(w.cmd)
<1>1. PICK content :
        /\ content = [x \in Pages!Fields[f] |-> IF x = w.cmd THEN w.value ELSE w.buf[x]]
        /\ p_files' = [p_files EXCEPT ![f] = content]
        /\ p_workers' = Pages!Moved(w, Pages!AfterSetter(w), content)
  BY DEF Pages!WriteFile
<1>2. /\ w.at = "open"
      /\ UNCHANGED <<p_web, p_edge, p_redfish, p_queue, p_published, p_saves, p_saved, p_broken>>
  BY DEF Pages!WriteFile
<1>3. content \in Contents(f) /\ f \in Pages!Files /\ content \in FileStates
  BY <1>1, <1>2, ThreadParts, BuffersAre DEF PagesControl, Contents
<1>4. PICK at : at = Pages!AfterSetter(w)
  OBVIOUS
<1>5. at \in {"publish", "done"} /\ (at = "publish" => Handler(w.cmd).publishes)
  BY <1>4 DEF Pages!AfterSetter, Handler
<1>6. (\A v \in p_workers' : WorkerTyped(v)) /\ OwnIsCurrent' /\ QuietIsAlone' /\ SavedIsLeftAlone'
  <2> HIDE DEF f
  <2> QED BY <1>1, <1>2, <1>3, <1>4, <1>5, MovedKeeps
<1> QED BY <1>1, <1>2, <1>3, <1>6, FileWritten DEF PagesControl, PagesTypes

\* A publisher reads the settings again.
LEMMA PublishReadControl ==
    ASSUME PagesControl, NEW w \in p_workers, Pages!PublishRead(w)
    PROVE  PagesControl'
<1> DEFINE f == Pages!FileOf(w.cmd)
<1>1. /\ w.at = "publish"
      /\ UNCHANGED <<p_web, p_edge, p_redfish, p_queue, p_files, p_published, p_saves, p_saved, p_broken>>
  BY DEF Pages!PublishRead
<1>2. w.buf \in FileStates /\ f \in Pages!Files /\ Handler(w.cmd).publishes
  BY <1>1, ThreadParts DEF PagesControl, PagesTypes, WorkerTyped
<1>3. p_files[f] \in FileStates /\ Pages!Filled(f, Pages!Junk) \in FileStates /\ Pages!Empty \in FileStates
  BY <1>2, BuffersAre DEF PagesControl, PagesTypes
<1>4. PICK at, buf :
        p_workers' = Pages!Moved(w, at, buf) /\ at \in {"clear", "done"} /\ buf \in FileStates
  BY <1>2, <1>3 DEF Pages!PublishRead
<1>5. (\A v \in p_workers' : WorkerTyped(v)) /\ OwnIsCurrent' /\ QuietIsAlone' /\ SavedIsLeftAlone'
  BY <1>1, <1>2, <1>4, MovedKeeps
<1> QED BY <1>1, <1>5 DEF PagesControl, PagesTypes

\* It removes or truncates the file it makes, and writes it.
LEMMA PublishControl ==
    ASSUME PagesControl, NEW w \in p_workers, Pages!PublishClear(w) \/ Pages!PublishWrite(w)
    PROVE  PagesControl'
<1>1. /\ w.at \in {"clear", "fill"}
      /\ UNCHANGED <<p_web, p_edge, p_redfish, p_queue, p_files, p_saves, p_saved, p_broken>>
  BY DEF Pages!PublishClear, Pages!PublishWrite
<1>2. w.buf \in FileStates /\ Handler(w.cmd).publishes
  BY <1>1, ThreadParts DEF PagesControl, PagesTypes, WorkerTyped
<1>3. PICK at, buf :
        p_workers' = Pages!Moved(w, at, buf) /\ at \in {"fill", "done"} /\ buf \in FileStates
  BY <1>2, BuffersAre DEF Pages!PublishClear, Pages!PublishWrite
<1>4. (\A v \in p_workers' : WorkerTyped(v)) /\ OwnIsCurrent' /\ QuietIsAlone' /\ SavedIsLeftAlone'
  BY <1>1, <1>2, <1>3, MovedKeeps
<1>5. p_published' = [t \in Targets |-> p_published'[t]]
  <2>1. PICK t, content : p_published' = [p_published EXCEPT ![t] = content]
    BY DEF Pages!PublishClear, Pages!PublishWrite
  <2> QED BY <2>1 DEF PagesControl, PagesTypes
<1> QED BY <1>1, <1>4, <1>5 DEF PagesControl, PagesTypes

\* The display of NTP moves a file and forgets what was saved in it.
LEMMA ShowNtpControl ==
    ASSUME PagesControl, NEW w \in p_workers, Pages!ShowNtp(w)
    PROVE  PagesControl'
<1>1. /\ p_workers' = Pages!Moved(w, "done", Pages!Empty)
      /\ UNCHANGED <<p_web, p_edge, p_redfish, p_queue, p_published, p_saves, p_broken>>
      /\ \/ /\ p_files.ntpbak # Pages!Absent
            /\ p_files' = [p_files EXCEPT !.ntp = p_files.ntpbak, !.ntpbak = Pages!Absent]
            /\ p_saved' = [p_saved EXCEPT !.ntp = 0]
         \/ UNCHANGED <<p_files, p_saved>>
  BY DEF Pages!ShowNtp
<1>2. "ntp" \in Pages!Files /\ "ntpbak" \notin Pages!Files
  BY FieldsAre
<1>3. /\ p_saved' \in [Pages!Files -> Nat]
      /\ \A f \in Pages!Files : p_saved'[f] # 0 => p_saved[f] # 0
  BY <1>1, <1>2 DEF PagesControl, PagesTypes
<1>4. (\A v \in p_workers' : WorkerTyped(v)) /\ OwnIsCurrent' /\ QuietIsAlone' /\ SavedIsLeftAlone'
  <2>1. PICK at, buf : at = "done" /\ buf = Pages!Empty
    OBVIOUS
  <2> QED BY <1>1, <1>3, <2>1, BuffersAre, MovedKeeps
<1>5. /\ p_files' \in [Pages!Files \cup {"ntpbak"} -> FileStates]
      /\ \A f \in Pages!Files : \/ p_files'[f] = p_files[f]
                                \/ f = "ntp" /\ p_files'[f] = p_files.ntpbak
      /\ p_files'.ntpbak \in {p_files.ntpbak, Pages!Absent}
  <2>1. /\ p_files \in [Pages!Files \cup {"ntpbak"} -> FileStates]
        /\ Pages!Absent \in FileStates
    BY BuffersAre DEF PagesControl, PagesTypes
  <2>2. CASE UNCHANGED p_files
    BY <2>1, <2>2
  <2>3. CASE p_files' = [p_files EXCEPT !.ntp = p_files.ntpbak, !.ntpbak = Pages!Absent]
    BY <1>2, <2>1, <2>3
  <2> QED BY <1>1, <2>2, <2>3
<1>6. /\ \A f \in Pages!Files : Pages!IsRecord(p_files'[f]) => p_files'[f] \in Contents(f)
      /\ Pages!IsRecord(p_files'.ntpbak) => p_files'.ntpbak \in Contents("ntp")
  BY <1>2, <1>5 DEF PagesControl, PagesTypes, Pages!IsRecord
<1> QED BY <1>1, <1>3, <1>4, <1>5, <1>6 DEF PagesControl, PagesTypes

\* What an answer does to the web server.
LEMMA AnswerFacts ==
    ASSUME PagesControl, NEW w \in p_workers, Pages!Answer(w)
    PROVE  /\ w.at = "done" /\ p_workers' = p_workers \ {w}
           /\ UNCHANGED <<p_edge, p_redfish, p_queue, p_files, p_published, p_saves, p_saved, p_broken>>
           /\ p_web'.page = p_web.page /\ p_web'.save = p_web.save /\ p_web'.quiet = p_web.quiet
           /\ p_web' \in [pc : {"idle", "call", "wait", "finish", "down"}, page : Pages!Pages,
                          save : Nat, next : Nat, quiet : BOOLEAN]
           /\ \/ ~w.own /\ p_web' = p_web
              \/ /\ w.own /\ p_web.pc = "wait" /\ p_web'.pc = "finish" /\ p_web'.next = p_web.next
                 /\ p_web.next = Len(Pages!Commands(p_web.page))
              \/ /\ w.own /\ p_web.pc = "wait" /\ p_web'.pc = "call" /\ p_web'.next = p_web.next + 1
                 /\ p_web.next # Len(Pages!Commands(p_web.page))
           /\ w.own => IsCurrent(w) /\ (\A v \in p_workers' : ~v.own) /\ \A i \in DOMAIN p_queue : ~p_queue[i].own
<1>1. /\ w.at = "done" /\ p_workers' = p_workers \ {w}
      /\ UNCHANGED <<p_edge, p_redfish, p_queue, p_files, p_published, p_saves, p_saved, p_broken>>
      /\ p_web' = IF ~w.own THEN p_web
                  ELSE IF p_web.next = Len(Pages!Commands(p_web.page)) THEN [p_web EXCEPT !.pc = "finish"]
                  ELSE [p_web EXCEPT !.pc = "call", !.next = p_web.next + 1]
  BY DEF Pages!Answer
<1>2. p_web \in [pc : {"idle", "call", "wait", "finish", "down"}, page : Pages!Pages,
                 save : Nat, next : Nat, quiet : BOOLEAN]
  BY DEF PagesControl, PagesTypes
<1>3. w.own => IsCurrent(w) /\ (\A v \in p_workers' : ~v.own) /\ \A i \in DOMAIN p_queue : ~p_queue[i].own
  BY <1>1 DEF PagesControl, OwnIsCurrent
<1>4. w.own => p_web.pc = "wait"
  BY <1>3 DEF IsCurrent
<1>5. p_web.next + 1 \in Nat
  BY <1>2
<1>6. CASE ~w.own
  BY <1>1, <1>2, <1>3, <1>6
<1>7. CASE w.own /\ p_web.next = Len(Pages!Commands(p_web.page))
  <2>1. p_web' = [p_web EXCEPT !.pc = "finish"]
    BY <1>1, <1>7
  <2>2. /\ p_web'.page = p_web.page /\ p_web'.save = p_web.save /\ p_web'.quiet = p_web.quiet
        /\ p_web'.pc = "finish" /\ p_web'.next = p_web.next
        /\ p_web' \in [pc : {"idle", "call", "wait", "finish", "down"}, page : Pages!Pages,
                        save : Nat, next : Nat, quiet : BOOLEAN]
    BY <1>2, <2>1
  <2> QED BY <1>1, <1>3, <1>4, <1>7, <2>2
<1>8. CASE w.own /\ p_web.next # Len(Pages!Commands(p_web.page))
  <2>1. PICK n \in Nat : n = p_web.next + 1
    BY <1>5
  <2>2. p_web' = [p_web EXCEPT !.pc = "call", !.next = n]
    BY <1>1, <1>8, <2>1
  <2>3. /\ p_web'.page = p_web.page /\ p_web'.save = p_web.save /\ p_web'.quiet = p_web.quiet
        /\ p_web'.pc = "call" /\ p_web'.next = n
        /\ p_web' \in [pc : {"idle", "call", "wait", "finish", "down"}, page : Pages!Pages,
                        save : Nat, next : Nat, quiet : BOOLEAN]
    BY <1>2, <2>2
  <2> QED BY <1>1, <1>3, <1>4, <1>8, <2>1, <2>3
<1> QED BY <1>6, <1>7, <1>8

\* With the answer of its command the web server has none about.
LEMMA AnswerControl ==
    ASSUME PagesControl, NEW w \in p_workers, Pages!Answer(w)
    PROVE  PagesControl'
<1>1. PagesTypes'
  <2>1. p_web'.next \in 1 .. Len(Pages!Commands(p_web'.page))
    <3>1. p_web.page \in Pages!Pages /\ p_web.next \in 1 .. Len(Pages!Commands(p_web.page))
      BY DEF PagesControl, PagesTypes
    <3>2. Len(Pages!Commands(p_web.page)) \in Nat \ {0}
      BY <3>1, PagesSend
    <3> QED BY <3>1, <3>2, AnswerFacts
  <2>2. /\ p_web'.pc = "finish" => p_web'.next = Len(Pages!Commands(p_web'.page))
        /\ p_web'.pc \in {"idle", "down"} => p_web'.page = "ntpShow" /\ ~p_web'.quiet
    BY AnswerFacts DEF PagesControl, PagesTypes
  <2> QED BY <2>1, <2>2, AnswerFacts DEF PagesControl, PagesTypes
<1>2. OwnIsCurrent'
  <2>1. CASE w.own
    BY <2>1, AnswerFacts DEF OwnIsCurrent
  <2>2. CASE ~w.own
    BY <2>2, AnswerFacts DEF PagesControl, OwnIsCurrent, IsCurrent
  <2> QED BY <2>1, <2>2
<1>3. QuietIsAlone'
  BY AnswerFacts DEF PagesControl, QuietIsAlone
<1>4. SavedIsLeftAlone'
  BY AnswerFacts DEF PagesControl, SavedIsLeftAlone
<1> QED BY <1>1, <1>2, <1>3, <1>4 DEF PagesControl

\* Deaths and starts of KETI-Edge.
LEMMA EdgeControl ==
    ASSUME PagesControl, Pages!EdgeDie \/ Pages!EdgeStart \/ Pages!RedfishReady
    PROVE  PagesControl'
<1>1. CASE Pages!EdgeDie
  BY <1>1, EdgeGoneControl DEF Pages!EdgeDie
<1>2. CASE Pages!EdgeStart
  BY <1>2 DEF Pages!EdgeStart, PagesControl, PagesTypes, OwnIsCurrent, IsCurrent, QuietIsAlone,
              SavedIsLeftAlone
<1>3. CASE Pages!RedfishReady
  BY <1>3 DEF Pages!RedfishReady, PagesControl, PagesTypes, OwnIsCurrent, IsCurrent, QuietIsAlone,
              SavedIsLeftAlone
<1> QED BY <1>1, <1>2, <1>3

\* Nothing is about, and nothing saved, at the start.
LEMMA InitControl == Pages!Init => PagesControl
<1> SUFFICES ASSUME Pages!Init PROVE PagesControl
  OBVIOUS
<1>1. /\ p_web = Pages!Idle /\ p_edge = TRUE /\ p_redfish = FALSE /\ p_broken = FALSE
      /\ p_queue = <<>> /\ p_workers = {} /\ p_saves = 0
      /\ p_files = [f \in Pages!Files \cup {"ntpbak"} |-> Pages!Absent]
      /\ p_published = [t \in Targets |-> Pages!Absent]
      /\ p_saved = [f \in Pages!Files |-> 0]
  BY DEF Pages!Init, Targets
<1>2. p_edge \in BOOLEAN /\ p_redfish \in BOOLEAN /\ p_broken \in BOOLEAN
  BY <1>1
<1>3. p_queue \in Seq([cmd : Cmds, value : Nat, own : BOOLEAN]) /\ DOMAIN p_queue = {}
  BY <1>1
<1>4. /\ p_files \in [Pages!Files \cup {"ntpbak"} -> FileStates]
      /\ \A f \in Pages!Files \cup {"ntpbak"} : ~Pages!IsRecord(p_files[f])
  BY <1>1, BuffersAre DEF Pages!IsRecord
<1>5. p_published = [t \in Targets |-> p_published[t]]
  BY <1>1
<1>6. PagesTypes
  BY <1>1, <1>2, <1>3, <1>4, <1>5, WebResets DEF PagesTypes
<1> QED BY <1>1, <1>3, <1>6, WebResets DEF PagesControl, OwnIsCurrent, QuietIsAlone, SavedIsLeftAlone

\* Every step keeps the control part.
LEMMA StepControl == PagesControl /\ Pages!Next => PagesControl'
  BY WebStartControl, StartPageControl, NtpManualControl, SendCommandControl, FinishPageControl,
     WebDieControl, TimelimitControl, TakeControl, ReadFileControl, OpenFileControl, WriteFileControl,
     PublishReadControl, PublishControl, ShowNtpControl, AnswerControl, EdgeControl
     DEF Pages!Next

-----------------------------------------------------------------------------
(* Layer 2: what the commands of a page set.                               *)

\* The commands of the pages that save settings, by their places.
LEMMA PlacesAre ==
    /\ Current("smtp", 1) = Pages!On("SMTP_SENDER") /\ Current("smtp", 2) = Pages!On("SMTP_PRIMARY")
    /\ Current("smtp", 3) = Pages!On("SMTP_SECONDARY")
    /\ Current("ssl", 1) = Pages!On("SSL_1") /\ Current("ssl", 2) = Pages!On("SSL_2")
    /\ Current("ad", 1) = Pages!On("AD_ENABLE") /\ Current("ad", 2) = Pages!On("AD_IP_PWD")
    /\ Current("ad", 3) = Pages!On("AD_DOMAIN") /\ Current("ad", 4) = Pages!On("AD_USERNAME")
    /\ Current("ad", 5) = Pages!Off("LDAP_ENABLE")
    /\ Current("ldap", 1) = Pages!On("LDAP_ENABLE") /\ Current("ldap", 2) = Pages!On("LDAP_IP")
    /\ Current("ldap", 3) = Pages!On("LDAP_PORT") /\ Current("ldap", 4) = Pages!On("LDAP_SEARCHBASE")
    /\ Current("ldap", 5) = Pages!On("LDAP_BINDDN") /\ Current("ldap", 6) = Pages!On("LDAP_PASSWORD")
    /\ Current("ldap", 7) = Pages!On("LDAP_SSL") /\ Current("ldap", 8) = Pages!On("LDAP_TIMELIMIT")
    /\ Current("ldap", 9) = Pages!Off("AD_ENABLE")
    /\ Current("radius", 1) = Pages!Off("RADIUS_DISABLE") /\ Current("radius", 2) = Pages!On("RADIUS")
    /\ Current("ntp", 1) = Pages!On("NTP_AUTO")
  BY CommandsAre DEF Current

\* A command of a page goes to the file of the page, or is the last one of a
\* directory, which disables the other; only the first ones of a page fill the
\* fields they do not set from anything but the file.
LEMMA PlaceFacts ==
    ASSUME NEW p \in Pages!Files, NEW n \in 1 .. Len(Pages!Commands(p))
    PROVE  LET c == Current(p, n)
               h == Handler(c.cmd)
           IN  /\ h.from # "none"
               /\ \/ h.file = p
                  \/ h.from = "zero" /\ ~h.publishes /\ c.cmd \notin Pages!Fields[p] /\ n > 1
               /\ h.file = p /\ h.from = "file" => n > 1
               /\ h.file = p /\ h.from # "file" => n = 1 \/ (p = "radius" /\ n = 2)
               /\ c.cmd \in Pages!Fields[p] => c.on
<1> DEFINE c == Current(p, n)
           h == Handler(c.cmd)
           Fits == /\ h.from # "none"
                   /\ \/ h.file = p
                      \/ h.from = "zero" /\ ~h.publishes /\ c.cmd \notin Pages!Fields[p] /\ n > 1
                   /\ h.file = p /\ h.from = "file" => n > 1
                   /\ h.file = p /\ h.from # "file" => n = 1 \/ (p = "radius" /\ n = 2)
                   /\ c.cmd \in Pages!Fields[p] => c.on
<1> USE PlacesAre, HandlersAre, FieldsAre DEF Pages!On, Pages!Off, Pages!Setter, Pages!Publisher
<1>1. CASE p = "smtp"
  <2>1. n = 1 \/ n = 2 \/ n = 3
    <3>1. Len(Pages!Commands("smtp")) = 3
      BY PagesAre
    <3>2. n \in 1 .. 3
      BY <1>1, <3>1
    <3> QED BY <3>2
  <2>2. CASE n = 1
    BY <1>1, <2>2
  <2>3. CASE n = 2
    BY <1>1, <2>3
  <2>4. CASE n = 3
    BY <1>1, <2>4
  <2> QED BY <2>1, <2>2, <2>3, <2>4
<1>2. CASE p = "ssl"
  <2>1. n = 1 \/ n = 2
    <3>1. Len(Pages!Commands("ssl")) = 2
      BY PagesAre
    <3>2. n \in 1 .. 2
      BY <1>2, <3>1
    <3> QED BY <3>2
  <2> QED BY <1>2, <2>1
<1>3. CASE p = "ad"
  <2>1. n = 1 \/ n = 2 \/ n = 3 \/ n = 4 \/ n = 5
    <3>1. Len(Pages!Commands("ad")) = 5
      BY PagesAre
    <3>2. n \in 1 .. 5
      BY <1>3, <3>1
    <3> QED BY <3>2
  <2>2. CASE n = 1
    BY <1>3, <2>2
  <2>3. CASE n = 2 \/ n = 3
    BY <1>3, <2>3
  <2>4. CASE n = 4
    BY <1>3, <2>4
  <2>5. CASE n = 5
    BY <1>3, <2>5
  <2> QED BY <2>1, <2>2, <2>3, <2>4, <2>5
<1>4. CASE p = "ldap"
  <2>1. n = 1 \/ n = 2 \/ n = 3 \/ n = 4 \/ n = 5 \/ n = 6 \/ n = 7 \/ n = 8 \/ n = 9
    <3>1. Len(Pages!Commands("ldap")) = 9
      BY PagesAre
    <3>2. n \in 1 .. 9
      BY <1>4, <3>1
    <3> QED BY <3>2
  <2>2. CASE n = 1
    BY <1>4, <2>2
  <2>3. CASE n = 2 \/ n = 3 \/ n = 4
    BY <1>4, <2>3
  <2>4. CASE n = 5 \/ n = 6 \/ n = 7
    BY <1>4, <2>4
  <2>5. CASE n = 8
    BY <1>4, <2>5
  <2>6. CASE n = 9
    BY <1>4, <2>6
  <2> QED BY <2>1, <2>2, <2>3, <2>4, <2>5, <2>6
<1>5. CASE p = "radius"
  <2>1. n = 1 \/ n = 2
    <3>1. Len(Pages!Commands("radius")) = 2
      BY PagesAre
    <3>2. n \in 1 .. 2
      BY <1>5, <3>1
    <3> QED BY <3>2
  <2> QED BY <1>5, <2>1
<1>6. CASE p = "ntp"
  <2>1. n = 1
    <3>1. Len(Pages!Commands("ntp")) = 1
      BY PagesAre
    <3>2. n \in 1 .. 1
      BY <1>6, <3>1
    <3> QED BY <3>2
  <2> QED BY <1>6, <2>1
<1> QED BY <1>1, <1>2, <1>3, <1>4, <1>5, <1>6

\* All commands of a page set all the fields of its file.
LEMMA AllAreSet == \A p \in Pages!Files : SetBy(p, Len(Pages!Commands(p))) = Pages!Fields[p]
<1> USE PlacesAre, FieldsAre DEF Pages!On, Pages!Off
<1>1. \A p \in Pages!Files, n \in Nat : SetBy(p, n) \subseteq Pages!Fields[p]
  BY DEF SetBy
<1>2. \A p \in Pages!Files, n \in Nat : \A i \in 1 .. n :
          Current(p, i).cmd \in Pages!Fields[p] => Current(p, i).cmd \in SetBy(p, n)
  BY DEF SetBy
<1>3. Pages!Fields["smtp"] \subseteq SetBy("smtp", 3)
  BY <1>2
<1>4. Pages!Fields["ssl"] \subseteq SetBy("ssl", 2)
  BY <1>2
<1>5. Pages!Fields["ad"] \subseteq SetBy("ad", 5)
  BY <1>2
<1>6. Pages!Fields["ldap"] \subseteq SetBy("ldap", 9)
  <2>1. \A i \in 1 .. 9 : Current("ldap", i).cmd \in Pages!Fields["ldap"]
                              => Current("ldap", i).cmd \in SetBy("ldap", 9)
    BY <1>2
  <2>2. {"LDAP_ENABLE", "LDAP_IP", "LDAP_PORT", "LDAP_SEARCHBASE"} \subseteq SetBy("ldap", 9)
    BY <2>1
  <2>3. {"LDAP_BINDDN", "LDAP_PASSWORD", "LDAP_SSL", "LDAP_TIMELIMIT"} \subseteq SetBy("ldap", 9)
    BY <2>1
  <2> QED BY <2>2, <2>3
<1>7. Pages!Fields["radius"] \subseteq SetBy("radius", 2)
  BY <1>2
<1>8. Pages!Fields["ntp"] \subseteq SetBy("ntp", 1)
  BY <1>2
<1>9. /\ Len(Pages!Commands("smtp")) = 3 /\ Len(Pages!Commands("ssl")) = 2
      /\ Len(Pages!Commands("ad")) = 5 /\ Len(Pages!Commands("ldap")) = 9
      /\ Len(Pages!Commands("radius")) = 2 /\ Len(Pages!Commands("ntp")) = 1
  BY PagesAre
<1>10. \A p \in Pages!Files : Pages!Fields[p] \subseteq SetBy(p, Len(Pages!Commands(p)))
  <2>1. \A p \in {"smtp", "ssl", "ad", "ldap", "radius", "ntp"} :
            Pages!Fields[p] \subseteq SetBy(p, Len(Pages!Commands(p)))
    BY ONLY <1>3, <1>4, <1>5, <1>6, <1>7, <1>8, <1>9
  <2> QED BY <2>1
<1>11. \A p \in Pages!Files : SetBy(p, Len(Pages!Commands(p))) \subseteq Pages!Fields[p]
  BY DEF SetBy
<1> QED BY ONLY <1>10, <1>11

\* What one more command sets, and that the first ones have nothing before them.
LEMMA SetByFacts ==
    ASSUME NEW p \in Pages!Files, NEW n \in 1 .. Len(Pages!Commands(p))
    PROVE  /\ n \in Nat \ {0} /\ SetBy(p, n) \subseteq Pages!Fields[p]
           /\ SetBy(p, n) = SetBy(p, n - 1) \cup ({Current(p, n).cmd} \cap Pages!Fields[p])
           /\ n = 1 \/ (p = "radius" /\ n = 2) => SetBy(p, n - 1) = {}
           /\ n = Len(Pages!Commands(p)) => SetBy(p, n) = Pages!Fields[p]
<1>1. n \in Nat \ {0}
  <2>1. p \in Pages!Pages
    BY FieldsAre
  <2> QED BY <2>1, PagesSend
<1>2. \A i : i \in 1 .. n <=> i \in 1 .. n - 1 \/ i = n
  BY <1>1
<1>3. SetBy(p, n) = SetBy(p, n - 1) \cup ({Current(p, n).cmd} \cap Pages!Fields[p])
  BY <1>2, Zenon DEF SetBy
<1>4. SetBy(p, n) \subseteq Pages!Fields[p]
  BY DEF SetBy
<1>5. n = 1 => SetBy(p, n - 1) = {}
  BY DEF SetBy
<1>6. p = "radius" /\ n = 2 => SetBy(p, n - 1) = {}
  <2>1. Current("radius", 1).cmd = "RADIUS_DISABLE"
    BY PlacesAre DEF Pages!Off
  <2>2. "RADIUS_DISABLE" \notin Pages!Fields["radius"]
    BY FieldsAre
  <2>3. \A i : i \in 1 .. 2 - 1 <=> i = 1
    OBVIOUS
  <2> QED BY <2>1, <2>2, <2>3 DEF SetBy
<1>7. n = Len(Pages!Commands(p)) => SetBy(p, n) = Pages!Fields[p]
  BY AllAreSet
<1> QED BY <1>1, <1>3, <1>4, <1>5, <1>6, <1>7

\* In a quiet page there is one thread at most, that of the current command.
LEMMA QuietThread ==
    ASSUME PagesControl, QuietPage, NEW w \in p_workers
    PROVE  /\ p_web.pc = "wait" /\ p_queue = <<>> /\ p_workers = {w} /\ w.own
           /\ p_web.page \in Pages!Files /\ p_web.page \in Pages!Pages
           /\ p_web.next \in 1 .. Len(Pages!Commands(p_web.page))
           /\ w.cmd = Current(p_web.page, p_web.next).cmd
           /\ w.value = IF Current(p_web.page, p_web.next).on THEN p_web.save ELSE 0
           /\ Pages!FileOf(w.cmd) = Handler(w.cmd).file
           /\ w.cmd = "SMTP_SENDER" => p_redfish
<1>1. w.own /\ IsCurrent(w)
  BY DEF QuietPage, PagesControl, QuietIsAlone, OwnIsCurrent
<1>2. p_workers = {w} /\ DOMAIN p_queue = {}
  BY <1>1 DEF QuietPage, PagesControl, QuietIsAlone, OwnIsCurrent
<1>3. p_queue = <<>>
  BY <1>2, QueueTail DEF PagesControl, PagesTypes
<1>4. /\ p_web.page \in Pages!Files /\ p_web.page \in Pages!Pages
      /\ p_web.next \in 1 .. Len(Pages!Commands(p_web.page))
  BY DEF QuietPage, PagesControl, PagesTypes
<1>5. Pages!FileOf(w.cmd) = Handler(w.cmd).file
  BY DEF Pages!FileOf, Handler
<1>6. w.cmd = "SMTP_SENDER" => p_redfish
  <2> SUFFICES ASSUME w.cmd = "SMTP_SENDER" PROVE p_redfish
    OBVIOUS
  <2>1. Handler(w.cmd).file = "smtp" /\ Handler(w.cmd).from = "stack"
    BY HandlersAre DEF Pages!Setter
  <2>2. w.cmd = Current(p_web.page, p_web.next).cmd
    BY <1>1 DEF IsCurrent
  <2>3. p_web.page = "smtp"
    BY <1>4, <2>1, <2>2, PlaceFacts
  <2> QED BY <2>3 DEF QuietPage, PagesControl, QuietIsAlone
<1> QED BY <1>1, <1>2, <1>3, <1>4, <1>5, <1>6 DEF IsCurrent

\* A step of that thread need only keep what the thread stands for.
LEMMA MovedFiles ==
    ASSUME PagesControl, NEW w \in p_workers, NEW v, p_workers' = (p_workers \ {w}) \cup {v},
           UNCHANGED <<p_web, p_queue>>, QuietPage => WorkerHolds(v)'
    PROVE  FilesProgress'
<1> SUFFICES ASSUME QuietPage PROVE FilesProgress'
  BY DEF FilesProgress, QuietPage
<1>1. p_workers' = {v} /\ p_web'.pc = "wait" /\ p_queue' = <<>>
  BY QuietThread
<1> QED BY <1>1 DEF FilesProgress

\* Steps that change no file keep what is saved in them.
LEMMA SavedKept ==
    ASSUME Pages!SavedPageIsWhole, UNCHANGED p_files, \A f \in Pages!Files : p_saved'[f] \in {0, p_saved[f]}
    PROVE  Pages!SavedPageIsWhole'
  BY DEF Pages!SavedPageIsWhole

\* The steps of the web server before and after the commands of a page.
LEMMA WebFiles ==
    ASSUME PagesControl, PagesFiles,
           \/ Pages!WebStart \/ Pages!StartPage \/ Pages!NtpManual \/ Pages!WebDie
           \/ Pages!SetTimelimitFails
    PROVE  PagesFiles'
<1>1. FilesProgress'
  <2>1. CASE Pages!WebStart \/ Pages!WebDie \/ Pages!SetTimelimitFails
    <3>1. p_web' = Pages!Idle \/ p_web' = Pages!Down
      BY <2>1 DEF Pages!WebStart, Pages!WebDie, Pages!SetTimelimitFails
    <3> QED BY <3>1, WebResets DEF FilesProgress, QuietPage
  <2>2. CASE Pages!StartPage
    <3>1. PICK p \in Pages!Pages :
            p_web' = [pc |-> "call", page |-> p, save |-> p_saves + 1, next |-> 1,
                      quiet |-> p_queue = <<>> /\ p_workers = {} /\ (p = "smtp" => p_redfish)]
      BY <2>2 DEF Pages!StartPage
    <3>2. p_web'.quiet => p_workers' = {}
      BY <2>2, <3>1 DEF Pages!StartPage
    <3>3. Finished' = 0
      BY <3>1 DEF Finished
    <3> QED BY <3>2, <3>3 DEF FilesProgress, QuietPage, Holds
  <2>3. CASE Pages!NtpManual
    BY <2>3 DEF Pages!NtpManual, PagesControl, PagesTypes, FilesProgress, QuietPage
  <2> QED BY <2>1, <2>2, <2>3
<1>2. Pages!SavedPageIsWhole'
  <2>1. CASE Pages!NtpManual
    <3>1. \A f \in Pages!Files : f # "ntp" => p_files'[f] = p_files[f] /\ p_saved'[f] = p_saved[f]
      BY <2>1, FieldsAre DEF Pages!NtpManual, PagesControl, PagesTypes
    <3>2. p_saved'["ntp"] = 0
      BY <2>1, FieldsAre DEF Pages!NtpManual, PagesControl, PagesTypes
    <3> QED BY <3>1, <3>2 DEF PagesFiles, Pages!SavedPageIsWhole
  <2>2. CASE ~Pages!NtpManual
    BY <2>2, SavedKept
       DEF PagesFiles, Pages!WebStart, Pages!StartPage, Pages!WebDie, Pages!SetTimelimitFails
  <2> QED BY <2>1, <2>2
<1> QED BY <1>1, <1>2 DEF PagesFiles

\* A command is sent, and a thread made for it, with what is in the file.
LEMMA SendFiles ==
    ASSUME PagesControl, PagesFiles, Pages!SendCommand \/ Pages!Take
    PROVE  PagesFiles'
<1>1. Pages!SavedPageIsWhole'
  BY SavedKept DEF PagesFiles, Pages!SendCommand, Pages!Take
<1>2. FilesProgress'
  <2>1. CASE Pages!SendCommand
    <3>1. /\ p_web.pc = "call" /\ p_web'.pc = "wait" /\ p_web'.page = p_web.page
          /\ p_web'.next = p_web.next /\ p_web'.save = p_web.save /\ p_web'.quiet = p_web.quiet
          /\ UNCHANGED <<p_workers, p_files>>
      BY <2>1 DEF Pages!SendCommand, PagesControl, PagesTypes
    <3>2. QuietPage => p_workers = {}
      BY <3>1, QuietThread
    <3>3. Finished' = Finished
      BY <3>1 DEF Finished
    <3> QED BY <3>1, <3>2, <3>3 DEF PagesFiles, FilesProgress, QuietPage, Holds
  <2>2. CASE Pages!Take
    <3>1. PICK v : v.at = "begin" /\ p_workers' = p_workers \cup {v}
      BY <2>2 DEF Pages!Take
    <3>2. p_queue # <<>> /\ UNCHANGED <<p_web, p_files>>
      BY <2>2 DEF Pages!Take
    <3> SUFFICES ASSUME QuietPage PROVE FilesProgress'
      BY <3>2 DEF FilesProgress, QuietPage
    <3>3. p_queue[1].own /\ 1 \in DOMAIN p_queue
      BY <3>2, QueueTail DEF QuietPage, PagesControl, PagesTypes, QuietIsAlone
    <3>4. p_web.pc = "wait"
      BY <3>3 DEF PagesControl, OwnIsCurrent, IsCurrent
    <3>5. Holds(p_files[p_web.page], p_web.next - 1)
      BY <3>2, <3>4 DEF PagesFiles, FilesProgress, Finished
    <3>6. WorkerHolds(v)'
      BY <3>1, <3>2, <3>5 DEF WorkerHolds, Holds
    <3>7. \A w \in p_workers : WorkerHolds(w)'
      BY <3>2 DEF PagesFiles, FilesProgress, WorkerHolds, Holds
    <3> QED BY <3>1, <3>2, <3>4, <3>5, <3>6, <3>7 DEF FilesProgress, Finished, Holds
  <2> QED BY <2>1, <2>2
<1> QED BY <1>1, <1>2 DEF PagesFiles

\* A quiet page that is answered has set all fields of its file.
LEMMA FinishFiles ==
    ASSUME PagesControl, PagesFiles, Pages!FinishPage
    PROVE  PagesFiles'
<1>1. /\ p_web.pc = "finish" /\ p_web' = Pages!Idle /\ UNCHANGED p_files
      /\ p_saved' = IF p_web.page \in Pages!Files /\ p_web.quiet
                    THEN [p_saved EXCEPT ![p_web.page] = p_web.save] ELSE p_saved
  BY DEF Pages!FinishPage
<1>2. FilesProgress'
  BY <1>1, WebResets DEF FilesProgress, QuietPage
<1>3. CASE ~QuietPage
  BY <1>1, <1>2, <1>3, SavedKept DEF PagesFiles, QuietPage
<1>4. CASE QuietPage
  <2> DEFINE p == p_web.page
             n == p_web.next
  <2>1. p \in Pages!Files /\ n = Len(Pages!Commands(p)) /\ n \in 1 .. Len(Pages!Commands(p))
    BY <1>1, <1>4 DEF QuietPage, PagesControl, PagesTypes
  <2>2. n > 0 /\ SetBy(p, n) = Pages!Fields[p]
    BY <2>1, SetByFacts
  <2>3. Holds(p_files[p], n)
    BY <1>1, <1>4 DEF PagesFiles, FilesProgress, Finished
  <2>4. p_files[p] = Pages!Filled(p, p_web.save)
    BY <2>2, <2>3 DEF Holds, Contents, Pages!Filled
  <2>5. p_saved' = [p_saved EXCEPT ![p] = p_web.save]
    BY <1>1, <1>4 DEF QuietPage
  <2>6. Pages!SavedPageIsWhole'
    BY <1>1, <2>4, <2>5 DEF PagesFiles, Pages!SavedPageIsWhole, PagesControl, PagesTypes
  <2> QED BY <1>2, <2>6 DEF PagesFiles
<1> QED BY <1>3, <1>4

\* No file changes when KETI-Edge dies or starts.
LEMMA EdgeGoneFiles ==
    ASSUME PagesControl, PagesFiles, Pages!EdgeGone, UNCHANGED <<p_queue, p_files, p_saved>>
    PROVE  PagesFiles'
<1>1. p_workers' = {}
  BY DEF Pages!EdgeGone
<1>2. PICK q \in BOOLEAN : q = (p_web.quiet /\ p_web.page # "smtp")
  BY Zenon
<1>3. p_web' = [p_web EXCEPT !.quiet = q]
  BY <1>2 DEF Pages!EdgeGone
<1>4. /\ p_web'.pc = p_web.pc /\ p_web'.page = p_web.page /\ p_web'.next = p_web.next
      /\ p_web'.save = p_web.save /\ p_web'.quiet = q
  BY <1>3 DEF PagesControl, PagesTypes
<1>5. QuietPage' => QuietPage
  BY <1>2, <1>4 DEF QuietPage
<1>6. Finished' = Finished
  BY <1>4 DEF Finished
<1>7. FilesProgress'
  BY <1>1, <1>4, <1>5, <1>6 DEF PagesFiles, FilesProgress, Holds
<1> QED BY <1>7, SavedKept DEF PagesFiles

\* KETI-Edge dies and starts.
LEMMA EdgeFiles ==
    ASSUME PagesControl, PagesFiles, Pages!EdgeDie \/ Pages!EdgeStart \/ Pages!RedfishReady
    PROVE  PagesFiles'
<1>1. CASE Pages!EdgeDie
  BY <1>1, EdgeGoneFiles DEF Pages!EdgeDie
<1>2. CASE Pages!EdgeStart \/ Pages!RedfishReady
  <2>1. UNCHANGED <<p_web, p_queue, p_workers, p_files, p_saved>>
    BY <1>2 DEF Pages!EdgeStart, Pages!RedfishReady
  <2>2. FilesProgress'
    BY <2>1 DEF PagesFiles, FilesProgress, QuietPage, Finished, Holds, WorkerHolds
  <2> QED BY <2>1, <2>2, SavedKept DEF PagesFiles
<1> QED BY <1>1, <1>2

\* With the answer the file has what the command set.
LEMMA AnswerFiles ==
    ASSUME PagesControl, PagesFiles, NEW w \in p_workers, Pages!Answer(w)
    PROVE  PagesFiles'
<1>1. Pages!SavedPageIsWhole'
  BY AnswerFacts, SavedKept DEF PagesFiles
<1>2. QuietPage' <=> QuietPage
  BY AnswerFacts DEF QuietPage
<1>3. ASSUME QuietPage PROVE FilesProgress'
  <2>1. p_workers' = {} /\ w.own
    BY <1>3, AnswerFacts, QuietThread
  <2>2. Holds(p_files[p_web.page], p_web.next)
    BY <1>3, AnswerFacts DEF PagesFiles, FilesProgress, WorkerHolds
  <2>3. p_web.next \in Nat
    BY DEF PagesControl, PagesTypes
  <2>4. Finished' = p_web.next
    BY <2>1, <2>3, AnswerFacts DEF Finished
  <2>5. Holds(p_files[p_web.page], Finished)'
    BY <2>2, <2>4, AnswerFacts DEF Holds
  <2> QED BY <2>1, <2>5 DEF FilesProgress
<1> QED BY <1>1, <1>2, <1>3 DEF PagesFiles, FilesProgress

\* A thread that goes on has the same command.
LEMMA MovedParts ==
    ASSUME PagesTypes, NEW w \in p_workers, NEW at, NEW buf
    PROVE  LET v == [w EXCEPT !.at = at, !.buf = buf] IN
           v.cmd = w.cmd /\ v.value = w.value /\ v.own = w.own /\ v.at = at /\ v.buf = buf
<1>1. WorkerTyped(w)
  BY DEF PagesTypes
<1> QED BY <1>1 DEF WorkerTyped

\* A setter of a quiet page that reads its file finds what has been set.
LEMMA ReadFileFiles ==
    ASSUME PagesControl, PagesFiles, NEW w \in p_workers, Pages!ReadFile(w)
    PROVE  PagesFiles'
<1> DEFINE f == Pages!FileOf(w.cmd)
<1>1. /\ w.at = "begin" /\ Handler(w.cmd).from = "file"
      /\ UNCHANGED <<p_queue, p_files, p_saved>>
      /\ \/ Pages!EdgeGone
         \/ /\ UNCHANGED p_web
            /\ p_workers' = IF Pages!IsRecord(p_files[f]) THEN Pages!Moved(w, "read", p_files[f])
                            ELSE IF f = "ldap" THEN Pages!Moved(w, "read", Pages!Filled(f, Pages!Junk))
                            ELSE Pages!Moved(w, Pages!AfterSetter(w), w.buf)
  BY DEF Pages!ReadFile, Handler
<1>2. CASE Pages!EdgeGone
  BY <1>1, <1>2, EdgeGoneFiles
<1>3. CASE ~Pages!EdgeGone
  <2>1. PICK at, buf :
          /\ p_workers' = Pages!Moved(w, at, buf)
          /\ Pages!IsRecord(p_files[f]) => at = "read" /\ buf = p_files[f]
    BY <1>1, <1>3
  <2>2. PICK v : v = [w EXCEPT !.at = at, !.buf = buf]
    OBVIOUS
  <2>3. p_workers' = (p_workers \ {w}) \cup {v}
    BY <2>1, <2>2 DEF Pages!Moved
  <2>4. v.cmd = w.cmd /\ v.at = at /\ v.buf = buf
    BY <2>2, MovedParts DEF PagesControl
  <2>5. ASSUME QuietPage PROVE WorkerHolds(v)'
    <3> DEFINE p == p_web.page
               n == p_web.next
    <3>1. f = p /\ n > 1 /\ p \in Pages!Files /\ n \in 1 .. Len(Pages!Commands(p))
      BY <1>1, <2>5, QuietThread, PlaceFacts
    <3>2. Holds(p_files[p], n - 1) /\ n - 1 > 0
      BY <1>1, <2>5, <3>1, SetByFacts DEF PagesFiles, FilesProgress, WorkerHolds
    <3>3. Pages!IsRecord(p_files[p])
      BY <3>1, <3>2, BuffersAre DEF Holds
    <3>4. v.at = "read" /\ v.buf = p_files[p] /\ Pages!FileOf(v.cmd) = p
      BY <2>1, <2>4, <3>1, <3>3
    <3>5. UNCHANGED <<p_web, p_files>>
      BY <1>1, <1>3
    <3> QED BY <3>1, <3>2, <3>4, <3>5 DEF WorkerHolds, Holds
  <2>6. FilesProgress'
    BY <1>1, <1>3, <2>3, <2>5, MovedFiles
  <2> QED BY <1>1, <2>6, SavedKept DEF PagesFiles
<1> QED BY <1>2, <1>3

\* No setter opens or writes a file that is recorded as saved.
LEMMA SavedNotWritten ==
    ASSUME PagesControl, PagesFiles, NEW w \in p_workers, w.cmd # "GET_NTP", NEW content,
           p_files' = [p_files EXCEPT ![Pages!FileOf(w.cmd)] = content], UNCHANGED p_saved
    PROVE  Pages!SavedPageIsWhole'
<1>1. \A f \in Pages!Files : p_saved[f] # 0 => f # Pages!FileOf(w.cmd)
  BY DEF PagesControl, SavedIsLeftAlone, Touches
<1> QED BY <1>1 DEF PagesFiles, Pages!SavedPageIsWhole, PagesControl, PagesTypes

\* A setter of a quiet page that opened its file has in memory what it will
\* write back.
LEMMA OpenFileFiles ==
    ASSUME PagesControl, PagesFiles, NEW w \in p_workers, Pages!OpenFile(w)
    PROVE  PagesFiles'
<1> DEFINE f == Pages!FileOf(w.cmd)
           from == Handler(w.cmd).from
<1>1. /\ w.at = "read" \/ (w.at = "begin" /\ from \in {"stack", "zero"})
      /\ p_files' = [p_files EXCEPT ![f] = Pages!Empty]
      /\ UNCHANGED <<p_web, p_queue, p_saved>>
  BY DEF Pages!OpenFile, Handler
<1>2. w.cmd \in Cmds /\ (w.at = "read" => from = "file") /\ f \in Pages!Files
  BY ThreadParts DEF PagesControl, PagesTypes, WorkerTyped
<1>3. w.cmd # "GET_NTP"
  BY <1>1, <1>2, HandlerFacts
<1>4. PICK at, buf :
        /\ p_workers' = Pages!Moved(w, at, buf)
        /\ \/ w.cmd = "SMTP_SENDER" /\ ~p_redfish
           \/ at = "open" /\ (w.at = "read" => buf = w.buf)
  BY <1>2 DEF Pages!OpenFile, Handler
<1>5. PICK v : v = [w EXCEPT !.at = at, !.buf = buf]
  OBVIOUS
<1>6. p_workers' = (p_workers \ {w}) \cup {v}
  BY <1>4, <1>5 DEF Pages!Moved
<1>7. v.cmd = w.cmd /\ v.at = at /\ v.buf = buf
  BY <1>5, MovedParts DEF PagesControl
<1>8. ASSUME QuietPage PROVE WorkerHolds(v)'
  <2> DEFINE p == p_web.page
             n == p_web.next
  <2>1. at = "open" /\ (w.at = "read" => buf = w.buf)
    BY <1>4, <1>8, QuietThread
  <2>2. /\ p \in Pages!Files /\ n \in 1 .. Len(Pages!Commands(p)) /\ f = Handler(w.cmd).file
        /\ w.cmd = Current(p, n).cmd
    BY <1>8, QuietThread
  <2>3. WorkerHolds(w)
    BY <1>8 DEF PagesFiles, FilesProgress
  <2>4. CASE f = p
    <3>1. \A x \in SetBy(p, n - 1) : v.buf[x] = p_web.save
      <4>1. CASE w.at = "read"
        <5>1. n - 1 > 0 /\ Holds(w.buf, n - 1)
          BY <2>2, <2>3, <4>1, SetByFacts DEF WorkerHolds
        <5> QED BY <1>7, <2>1, <4>1, <5>1 DEF Holds
      <4>2. CASE w.at # "read"
        <5>1. SetBy(p, n - 1) = {}
          BY <1>1, <2>2, <2>4, <4>2, PlaceFacts, SetByFacts
        <5> QED BY <5>1
      <4> QED BY <4>1, <4>2
    <3>2. (\A x \in SetBy(p, n - 1) : v.buf[x] = p_web.save)'
      BY <1>1, <3>1 DEF SetBy, Current
    <3> QED BY <1>1, <1>7, <2>1, <2>4, <3>2 DEF WorkerHolds
  <2>5. CASE f # p
    <3>1. w.at # "read"
      BY <2>3, <2>5 DEF WorkerHolds
    <3>2. Holds(p_files[p], n - 1)
      BY <1>1, <2>3, <3>1 DEF WorkerHolds
    <3>3. p_files'[p] = p_files[p]
      BY <1>1, <2>5, <2>2 DEF PagesControl, PagesTypes
    <3>4. Holds(p_files[p], n - 1)'
      BY <1>1, <3>2, <3>3 DEF Holds
    <3> QED BY <1>1, <1>7, <2>1, <2>5, <3>4 DEF WorkerHolds
  <2> QED BY <2>4, <2>5
<1>9. FilesProgress'
  BY <1>1, <1>6, <1>8, MovedFiles
<1>10. Pages!SavedPageIsWhole'
  BY <1>1, <1>3, SavedNotWritten
<1> QED BY <1>9, <1>10 DEF PagesFiles

\* A setter of a quiet page that wrote its file has set one more field.
LEMMA WriteFileFiles ==
    ASSUME PagesControl, PagesFiles, NEW w \in p_workers, Pages!WriteFile(w)
    PROVE  PagesFiles'
<1> DEFINE f == Pages!FileOf(w.cmd)
<1>1. PICK content :
        /\ content = [x \in Pages!Fields[f] |-> IF x = w.cmd THEN w.value ELSE w.buf[x]]
        /\ p_files' = [p_files EXCEPT ![f] = content]
        /\ p_workers' = Pages!Moved(w, Pages!AfterSetter(w), content)
  BY DEF Pages!WriteFile
<1>2. w.at = "open" /\ UNCHANGED <<p_web, p_queue, p_saved>>
  BY DEF Pages!WriteFile
<1>3. w.cmd \in Cmds /\ f \in Pages!Files /\ Handler(w.cmd).from # "none"
  BY <1>2, ThreadParts DEF PagesControl, PagesTypes, WorkerTyped
<1>4. w.cmd # "GET_NTP"
  BY <1>3, HandlerFacts
<1>5. PICK at : at = Pages!AfterSetter(w)
  OBVIOUS
<1>6. PICK v : v = [w EXCEPT !.at = at, !.buf = content]
  OBVIOUS
<1>7. p_workers' = (p_workers \ {w}) \cup {v}
  BY <1>1, <1>5, <1>6 DEF Pages!Moved
<1>8. v.cmd = w.cmd /\ v.at = at /\ v.buf = content
  BY <1>6, MovedParts DEF PagesControl
<1>9. at = IF Handler(w.cmd).publishes THEN "publish" ELSE "done"
  BY <1>5 DEF Pages!AfterSetter, Handler
<1>10. content \in Contents(f)
  BY <1>1, <1>2, <1>3, ThreadParts DEF PagesControl, Contents
<1>11. ASSUME QuietPage PROVE WorkerHolds(v)'
  <2> DEFINE p == p_web.page
             n == p_web.next
  <2>1. /\ p \in Pages!Files /\ n \in 1 .. Len(Pages!Commands(p)) /\ f = Handler(w.cmd).file
        /\ w.cmd = Current(p, n).cmd
        /\ w.value = IF Current(p, n).on THEN p_web.save ELSE 0
    BY <1>11, QuietThread
  <2>2. WorkerHolds(w)
    BY <1>11 DEF PagesFiles, FilesProgress
  <2>3. CASE f = p
    <3>1. \A x \in SetBy(p, n - 1) : w.buf[x] = p_web.save
      BY <1>2, <2>2, <2>3 DEF WorkerHolds
    <3>2. w.cmd \in Pages!Fields[p] => w.value = p_web.save
      BY <2>1, PlaceFacts
    <3>3. \A x \in SetBy(p, n) : x \in Pages!Fields[p] /\ (x = w.cmd \/ x \in SetBy(p, n - 1))
      BY <2>1, SetByFacts
    <3>4. \A x \in SetBy(p, n) : content[x] = p_web.save
      BY <1>1, <2>3, <3>1, <3>2, <3>3
    <3>5. Holds(content, n)
      BY <1>10, <2>3, <3>4, SMTT(30) DEF Holds
    <3>6. Holds(content, n)' /\ p_files'[p] = content
      BY <1>1, <1>2, <2>1, <2>3, <3>5 DEF Holds, PagesControl, PagesTypes
    <3> QED BY <1>2, <1>8, <1>9, <3>6 DEF WorkerHolds
  <2>4. CASE f # p
    <3>1. Holds(p_files[p], n - 1)
      BY <1>2, <2>2, <2>4 DEF WorkerHolds
    <3>2. ~Handler(w.cmd).publishes /\ w.cmd \notin Pages!Fields[p] /\ n > 1
      BY <2>1, <2>4, PlaceFacts
    <3>3. n - 1 > 0 /\ SetBy(p, n) = SetBy(p, n - 1)
      <4>1. n \in Nat /\ SetBy(p, n) = SetBy(p, n - 1) \cup ({w.cmd} \cap Pages!Fields[p])
        BY <2>1, SetByFacts
      <4>2. {w.cmd} \cap Pages!Fields[p] = {}
        BY <3>2
      <4> QED BY <3>2, <4>1, <4>2
    <3>4. Holds(p_files[p], n)
      BY <3>1, <3>3 DEF Holds
    <3>5. p_files'[p] = p_files[p]
      BY <1>1, <2>1, <2>4 DEF PagesControl, PagesTypes
    <3>6. Holds(p_files[p], n)'
      BY <1>2, <3>4, <3>5 DEF Holds
    <3> QED BY <1>2, <1>8, <1>9, <3>2, <3>6 DEF WorkerHolds
  <2> QED BY <2>3, <2>4
<1>12. FilesProgress'
  BY <1>2, <1>7, <1>11, MovedFiles
<1>13. Pages!SavedPageIsWhole'
  BY <1>1, <1>2, <1>4, SavedNotWritten
<1> QED BY <1>12, <1>13 DEF PagesFiles

\* A publisher of a quiet page reads back what has been set.
LEMMA PublishFiles ==
    ASSUME PagesControl, PagesFiles, NEW w \in p_workers,
           Pages!PublishRead(w) \/ Pages!PublishClear(w) \/ Pages!PublishWrite(w)
    PROVE  PagesFiles'
<1> DEFINE f == Pages!FileOf(w.cmd)
<1>1. w.at \in {"publish", "clear", "fill"} /\ UNCHANGED <<p_web, p_queue, p_files, p_saved>>
  BY DEF Pages!PublishRead, Pages!PublishClear, Pages!PublishWrite
<1>2. Handler(w.cmd).publishes
  BY <1>1 DEF PagesControl, PagesTypes, WorkerTyped
<1>3. PICK at, buf :
        /\ p_workers' = Pages!Moved(w, at, buf) /\ at \in {"clear", "fill", "done"}
        /\ w.at = "publish" /\ f = "radius" => buf = w.buf
        /\ w.at = "publish" /\ f # "radius" /\ Pages!IsRecord(p_files[f]) => buf = p_files[f]
        /\ w.at = "clear" => buf = w.buf
        /\ w.at = "fill" => at = "done"
  BY DEF Pages!PublishRead, Pages!PublishClear, Pages!PublishWrite
<1>4. PICK v : v = [w EXCEPT !.at = at, !.buf = buf]
  OBVIOUS
<1>5. p_workers' = (p_workers \ {w}) \cup {v}
  BY <1>3, <1>4 DEF Pages!Moved
<1>6. v.cmd = w.cmd /\ v.at = at /\ v.buf = buf
  BY <1>4, MovedParts DEF PagesControl
<1>7. ASSUME QuietPage PROVE WorkerHolds(v)'
  <2> DEFINE p == p_web.page
             n == p_web.next
  <2>1. /\ p \in Pages!Files /\ n \in 1 .. Len(Pages!Commands(p)) /\ f = p /\ n > 0
    BY <1>2, <1>7, QuietThread, PlaceFacts, SetByFacts
  <2>2. WorkerHolds(w)
    BY <1>7 DEF PagesFiles, FilesProgress
  <2>3. Holds(p_files[p], n) /\ Pages!IsRecord(p_files[p])
    BY <1>1, <2>1, <2>2, BuffersAre DEF WorkerHolds, Holds
  <2>4. at # "done" => Holds(buf, n)
    BY <1>1, <1>3, <2>1, <2>2, <2>3 DEF WorkerHolds
  <2>5. Holds(p_files[p], n)' /\ (at # "done" => Holds(buf, n)')
    BY <1>1, <2>3, <2>4 DEF Holds
  <2> QED BY <1>1, <1>3, <1>6, <2>5 DEF WorkerHolds
<1>8. FilesProgress'
  BY <1>1, <1>5, <1>7, MovedFiles
<1> QED BY <1>1, <1>8, SavedKept DEF PagesFiles

\* The display of NTP is no part of a page that saves.
LEMMA ShowNtpFiles ==
    ASSUME PagesControl, PagesFiles, NEW w \in p_workers, Pages!ShowNtp(w)
    PROVE  PagesFiles'
<1>1. /\ w.cmd = "GET_NTP" /\ p_workers' = Pages!Moved(w, "done", Pages!Empty)
      /\ UNCHANGED <<p_web, p_queue>>
      /\ \/ /\ p_files' = [p_files EXCEPT !.ntp = p_files.ntpbak, !.ntpbak = Pages!Absent]
            /\ p_saved' = [p_saved EXCEPT !.ntp = 0]
         \/ UNCHANGED <<p_files, p_saved>>
  BY DEF Pages!ShowNtp
<1>2. ~QuietPage
  <2>1. Handler("GET_NTP").from = "none"
    BY HandlersAre DEF Pages!Setter
  <2> QED BY <1>1, <2>1, QuietThread, PlaceFacts
<1>3. FilesProgress'
  BY <1>1, <1>2 DEF FilesProgress, QuietPage
<1>4. Pages!SavedPageIsWhole'
  <2>1. CASE UNCHANGED <<p_files, p_saved>>
    BY <2>1, SavedKept DEF PagesFiles
  <2>2. CASE /\ p_files' = [p_files EXCEPT !.ntp = p_files.ntpbak, !.ntpbak = Pages!Absent]
             /\ p_saved' = [p_saved EXCEPT !.ntp = 0]
    <3>1. \A f \in Pages!Files : f # "ntp" => p_files'[f] = p_files[f] /\ p_saved'[f] = p_saved[f]
      BY <2>2, FieldsAre DEF PagesControl, PagesTypes
    <3>2. p_saved'["ntp"] = 0
      BY <2>2, FieldsAre DEF PagesControl, PagesTypes
    <3> QED BY <3>1, <3>2 DEF PagesFiles, Pages!SavedPageIsWhole
  <2> QED BY <1>1, <2>1, <2>2
<1> QED BY <1>3, <1>4 DEF PagesFiles

\* Nothing is saved at the start.
LEMMA InitFiles == Pages!Init => PagesFiles
<1> SUFFICES ASSUME Pages!Init PROVE PagesFiles
  OBVIOUS
<1>1. p_web = Pages!Idle /\ \A f \in Pages!Files : p_saved[f] = 0
  BY DEF Pages!Init
<1> QED BY <1>1, WebResets DEF PagesFiles, FilesProgress, QuietPage, Pages!SavedPageIsWhole

\* Every step keeps what the files have.
LEMMA StepFiles == PagesControl /\ PagesFiles /\ Pages!Next => PagesFiles'
  BY WebFiles, SendFiles, FinishFiles, EdgeFiles, AnswerFiles, ReadFileFiles, OpenFileFiles,
     WriteFileFiles, PublishFiles, ShowNtpFiles DEF Pages!Next

-----------------------------------------------------------------------------
(* Layer 3: the files made from the settings.                              *)

\* One command of a page makes the file, when all fields are set; the one that
\* disables RADIUS only removes it.
LEMMA PublisherFacts ==
    ASSUME NEW p \in Publishing, NEW n \in 1 .. Len(Pages!Commands(p))
    PROVE  LET c == Current(p, n).cmd IN
           /\ p \in Pages!Files /\ PublishedAt[p] \in 2 .. Len(Pages!Commands(p)) /\ n \in Nat
           /\ Handler(c).publishes => n = PublishedAt[p] \/ (n = 1 /\ c = "RADIUS_DISABLE")
           /\ ~Handler(c).publishes => n # PublishedAt[p]
           /\ n = PublishedAt[p] => SetBy(p, n) = Pages!Fields[p] /\ c # "RADIUS_DISABLE"
<1> DEFINE c == Current(p, n).cmd
           Fits == /\ Handler(c).publishes => n = PublishedAt[p] \/ (n = 1 /\ c = "RADIUS_DISABLE")
                   /\ ~Handler(c).publishes => n # PublishedAt[p]
                   /\ n = PublishedAt[p] => c # "RADIUS_DISABLE"
<1>1. /\ Len(Pages!Commands("smtp")) = 3 /\ Len(Pages!Commands("ad")) = 5
      /\ Len(Pages!Commands("ldap")) = 9 /\ Len(Pages!Commands("radius")) = 2
  BY PagesAre
<1>2. PublishedAt["smtp"] = 3 /\ PublishedAt["ad"] = 4 /\ PublishedAt["ldap"] = 8 /\ PublishedAt["radius"] = 2
  BY DEF PublishedAt
<1>3. p \in Pages!Files
  BY FieldsAre DEF Publishing
<1>4. n \in Nat
  BY <1>3, SetByFacts
<1>5. p = "smtp" \/ p = "ad" \/ p = "ldap" \/ p = "radius"
  BY DEF Publishing
<1>6. PublishedAt[p] \in 2 .. Len(Pages!Commands(p))
  <2>1. 3 \in 2 .. 3 /\ 4 \in 2 .. 5 /\ 8 \in 2 .. 9 /\ 2 \in 2 .. 2
    OBVIOUS
  <2> QED BY <1>1, <1>2, <1>5, <2>1, Zenon
<1>7. Fits
  <2> USE PlacesAre, HandlersAre, <1>2 DEF Pages!On, Pages!Off, Pages!Setter, Pages!Publisher
  <2>1. CASE p = "smtp"
    <3>1. n \in 1 .. 3
      BY <1>1, <2>1
    <3>2. n = 1 \/ n = 2 \/ n = 3
      BY <3>1
    <3> QED BY <2>1, <3>2
  <2>2. CASE p = "ad"
    <3>1. n \in 1 .. 5
      BY <1>1, <2>2
    <3>2. n = 1 \/ n = 2 \/ n = 3 \/ n = 4 \/ n = 5
      BY <3>1
    <3>3. CASE n = 1 \/ n = 2 \/ n = 3
      BY <2>2, <3>3
    <3>4. CASE n = 4 \/ n = 5
      BY <2>2, <3>4
    <3> QED BY <3>2, <3>3, <3>4
  <2>3. CASE p = "ldap"
    <3>1. n \in 1 .. 9
      BY <1>1, <2>3
    <3>2. n = 1 \/ n = 2 \/ n = 3 \/ n = 4 \/ n = 5 \/ n = 6 \/ n = 7 \/ n = 8 \/ n = 9
      BY <3>1
    <3>3. CASE n = 1 \/ n = 2 \/ n = 3
      BY <2>3, <3>3
    <3>4. CASE n = 4 \/ n = 5 \/ n = 6
      BY <2>3, <3>4
    <3>5. CASE n = 7 \/ n = 8 \/ n = 9
      BY <2>3, <3>5
    <3> QED BY <3>2, <3>3, <3>4, <3>5
  <2>4. CASE p = "radius"
    <3>1. n \in 1 .. 2
      BY <1>1, <2>4
    <3>2. n = 1 \/ n = 2
      BY <3>1
    <3> QED BY <2>4, <3>2
  <2> QED BY <1>5, <2>1, <2>2, <2>3, <2>4
<1>8. n = PublishedAt[p] => SetBy(p, n) = Pages!Fields[p]
  <2>1. CASE p = "smtp" \/ p = "radius"
    <3>1. Len(Pages!Commands(p)) = PublishedAt[p]
      BY <1>1, <1>2, <2>1
    <3> QED BY <1>3, <3>1, AllAreSet
  <2>2. CASE p = "ad" \/ p = "ldap"
    <3>1. PICK k \in 1 .. Len(Pages!Commands(p)) :
            k = Len(Pages!Commands(p)) /\ k - 1 = PublishedAt[p] /\ (p = "ad" => k = 5) /\ (p = "ldap" => k = 9)
      <4>1. 5 \in 1 .. 5 /\ 5 - 1 = 4 /\ 9 \in 1 .. 9 /\ 9 - 1 = 8
        OBVIOUS
      <4>2. CASE p = "ad"
        <5>1. 5 \in 1 .. Len(Pages!Commands(p))
          BY <1>1, <4>1, <4>2, Zenon
        <5> QED BY <5>1, <1>1, <1>2, <4>1, <4>2
      <4>3. CASE p = "ldap"
        <5>1. 9 \in 1 .. Len(Pages!Commands(p))
          BY <1>1, <4>1, <4>3, Zenon
        <5> QED BY <5>1, <1>1, <1>2, <4>1, <4>3
      <4> QED BY <2>2, <4>2, <4>3
    <3>2. SetBy(p, k) = SetBy(p, k - 1) \cup ({Current(p, k).cmd} \cap Pages!Fields[p])
      BY <1>3, <3>1, SetByFacts
    <3>3. Current(p, k).cmd \notin Pages!Fields[p]
      <4>1. Current("ad", 5).cmd = "LDAP_ENABLE" /\ Current("ldap", 9).cmd = "AD_ENABLE"
        BY PlacesAre DEF Pages!Off
      <4>2. "LDAP_ENABLE" \notin Pages!Fields["ad"] /\ "AD_ENABLE" \notin Pages!Fields["ldap"]
        BY FieldsAre
      <4> QED BY <2>2, <3>1, <4>1, <4>2
    <3>4. SetBy(p, k) = Pages!Fields[p]
      BY <1>3, <3>1, AllAreSet
    <3> QED BY <3>1, <3>2, <3>3, <3>4
  <2> QED BY <1>5, <2>1, <2>2
<1> QED BY <1>3, <1>4, <1>6, <1>7, <1>8

\* What is made from a page that starts, and from one whose file changes, is
\* not looked at; a step that changes no such file keeps what is published.
LEMMA PublishedKept ==
    ASSUME Pages!PublishedIsSaved, UNCHANGED p_published,
           \A f \in Pages!Files : p_saved'[f] \in {0, p_saved[f]}
    PROVE  Pages!PublishedIsSaved'
<1>1. {"smtp", "ad", "ldap", "radius"} \subseteq Pages!Files
  BY FieldsAre
<1> QED BY <1>1 DEF Pages!PublishedIsSaved

\* A step of the thread of a quiet page need only keep what it stands for.
LEMMA MovedPublished ==
    ASSUME PagesControl, NEW w \in p_workers, NEW v, p_workers' = (p_workers \ {w}) \cup {v},
           UNCHANGED <<p_web, p_queue>>, PublishingPage => WorkerPublishes(v)'
    PROVE  PublicationProgress'
<1> SUFFICES ASSUME PublishingPage PROVE PublicationProgress'
  BY DEF PublicationProgress, PublishingPage, QuietPage
<1>1. p_workers' = {v} /\ p_web'.pc = "wait" /\ p_queue' = <<>>
  BY QuietThread DEF PublishingPage
<1> QED BY <1>1 DEF PublicationProgress

\* The steps of the web server around the commands of a page.
LEMMA WebPublished ==
    ASSUME PagesControl, PagesPublished,
           \/ Pages!WebStart \/ Pages!StartPage \/ Pages!NtpManual \/ Pages!WebDie
           \/ Pages!SetTimelimitFails
    PROVE  PagesPublished'
<1>1. PublicationProgress'
  <2>1. CASE Pages!WebStart \/ Pages!WebDie \/ Pages!SetTimelimitFails
    <3>1. p_web' = Pages!Idle \/ p_web' = Pages!Down
      BY <2>1 DEF Pages!WebStart, Pages!WebDie, Pages!SetTimelimitFails
    <3> QED BY <3>1, WebResets DEF PublicationProgress, PublishingPage, QuietPage
  <2>2. CASE Pages!StartPage
    <3>1. PICK p \in Pages!Pages :
            p_web' = [pc |-> "call", page |-> p, save |-> p_saves + 1, next |-> 1,
                      quiet |-> p_queue = <<>> /\ p_workers = {} /\ (p = "smtp" => p_redfish)]
      BY <2>2 DEF Pages!StartPage
    <3>2. p_web'.quiet => p_workers' = {}
      BY <2>2, <3>1 DEF Pages!StartPage
    <3>3. Finished' = 0
      BY <3>1 DEF Finished
    <3>4. \A f \in Publishing : ~(0 >= PublishedAt[f])
      BY DEF Publishing, PublishedAt
    <3> QED BY <3>2, <3>3, <3>4 DEF PublicationProgress, PublishingPage, QuietPage
  <2>3. CASE Pages!NtpManual
    BY <2>3 DEF Pages!NtpManual, PagesControl, PagesTypes, PublicationProgress, PublishingPage, QuietPage
  <2> QED BY <2>1, <2>2, <2>3
<1>2. UNCHANGED p_published /\ \A f \in Pages!Files : p_saved'[f] \in {0, p_saved[f]}
  BY DEF Pages!WebStart, Pages!StartPage, Pages!NtpManual, Pages!WebDie, Pages!SetTimelimitFails,
         PagesControl, PagesTypes
<1> QED BY <1>1, <1>2, PublishedKept DEF PagesPublished

\* A command is sent, and a thread made for it.
LEMMA SendPublished ==
    ASSUME PagesControl, PagesPublished, Pages!SendCommand \/ Pages!Take
    PROVE  PagesPublished'
<1>1. UNCHANGED <<p_published, p_saved>>
  BY DEF Pages!SendCommand, Pages!Take
<1>2. PublicationProgress'
  <2>1. CASE Pages!SendCommand
    <3>1. /\ p_web.pc = "call" /\ p_web'.pc = "wait" /\ p_web'.page = p_web.page
          /\ p_web'.next = p_web.next /\ p_web'.save = p_web.save /\ p_web'.quiet = p_web.quiet
          /\ UNCHANGED p_workers
      BY <2>1 DEF Pages!SendCommand, PagesControl, PagesTypes
    <3>2. PublishingPage => p_workers = {}
      BY <3>1, QuietThread DEF PublishingPage
    <3>3. Finished' = Finished
      BY <3>1 DEF Finished
    <3>4. PublishingPage' <=> PublishingPage
      BY <3>1 DEF PublishingPage, QuietPage
    <3>5. IsPublished' <=> IsPublished
      BY <1>1, <3>1 DEF IsPublished
    <3> QED BY <3>1, <3>2, <3>3, <3>4, <3>5 DEF PagesPublished, PublicationProgress
  <2>2. CASE Pages!Take
    <3>1. PICK v : v.at = "begin" /\ p_workers' = p_workers \cup {v}
      BY <2>2 DEF Pages!Take
    <3>2. p_queue # <<>> /\ UNCHANGED <<p_web, p_published>>
      BY <2>2 DEF Pages!Take
    <3> SUFFICES ASSUME PublishingPage PROVE PublicationProgress'
      BY <3>2 DEF PublicationProgress, PublishingPage, QuietPage
    <3>3. p_queue[1].own /\ 1 \in DOMAIN p_queue
      BY <3>2, QueueTail DEF PublishingPage, QuietPage, PagesControl, PagesTypes, QuietIsAlone
    <3>4. p_web.pc = "wait"
      BY <3>3 DEF PagesControl, OwnIsCurrent, IsCurrent
    <3>5. p_web.next - 1 >= PublishedAt[p_web.page] => IsPublished
      BY <3>2, <3>4 DEF PagesPublished, PublicationProgress, Finished
    <3>6. WorkerPublishes(v)'
      BY <3>1, <3>2, <3>5 DEF WorkerPublishes, IsPublished
    <3>7. \A w \in p_workers : WorkerPublishes(w)'
      BY <3>2 DEF PagesPublished, PublicationProgress, WorkerPublishes, IsPublished
    <3> QED BY <3>1, <3>2, <3>4, <3>5, <3>6, <3>7 DEF PublicationProgress, Finished, IsPublished
  <2> QED BY <2>1, <2>2
<1> QED BY <1>1, <1>2, PublishedKept DEF PagesPublished, PagesControl, PagesTypes

\* A quiet page that is answered has made its file; RADIUS that is off has
\* nothing recorded as saved.
LEMMA FinishPublished ==
    ASSUME PagesControl, PagesPublished, Pages!FinishPage
    PROVE  PagesPublished'
<1>1. /\ p_web.pc = "finish" /\ p_web' = Pages!Idle
      /\ p_saved' = IF p_web.page \in Pages!Files /\ p_web.quiet
                    THEN [p_saved EXCEPT ![p_web.page] = p_web.save] ELSE p_saved
      /\ \/ p_web.page = "radiusOff" /\ p_published' = [p_published EXCEPT !.radius = Pages!Absent]
         \/ p_published' = p_published
  BY DEF Pages!FinishPage
<1>2. PublicationProgress'
  BY <1>1, WebResets DEF PublicationProgress, PublishingPage, QuietPage
<1>3. CASE p_web.page = "radiusOff"
  <2>1. p_saved' = p_saved /\ p_saved["radius"] = 0
    BY <1>1, <1>3, FieldsAre, PagesAre DEF PagesControl, SavedIsLeftAlone
  <2>2. \A f \in {"smtp", "ad", "ldap"} :
            p_published'[Pages!Published(f).target] = p_published[Pages!Published(f).target]
    BY <1>1, PublishedAre DEF PagesControl, PagesTypes, Targets
  <2>3. Pages!PublishedIsSaved'
    BY <2>1, <2>2 DEF PagesPublished, Pages!PublishedIsSaved
  <2> QED BY <1>2, <2>3 DEF PagesPublished
<1>4. CASE p_web.page # "radiusOff"
  <2>1. UNCHANGED p_published
    BY <1>1, <1>4
  <2>2. ASSUME NEW f \in Publishing, p_saved'[f] # 0
        PROVE  p_published[Pages!Published(f).target] = Pages!Filled(f, p_saved'[f])
    <3>1. f \in Pages!Files
      BY FieldsAre DEF Publishing
    <3>2. CASE QuietPage /\ p_web.page = f
      <4>1. Finished >= PublishedAt[f]
        <5>1. p_web.next = Len(Pages!Commands(f)) /\ p_web.next \in 1 .. Len(Pages!Commands(f))
          BY <1>1, <3>2 DEF PagesControl, PagesTypes
        <5>2. PublishedAt[f] \in 2 .. Len(Pages!Commands(f)) /\ p_web.next \in Nat
          BY <5>1, PublisherFacts
        <5>3. PublishedAt[f] \in 2 .. p_web.next
          BY <5>1, <5>2, Zenon
        <5> QED BY <1>1, <5>2, <5>3 DEF Finished
      <4>2. IsPublished
        BY <1>1, <3>2, <4>1 DEF PagesPublished, PublicationProgress, PublishingPage
      <4>3. p_saved'[f] = p_web.save
        BY <1>1, <3>1, <3>2 DEF QuietPage, PagesControl, PagesTypes
      <4> QED BY <3>2, <4>2, <4>3 DEF IsPublished
    <3>3. CASE ~(QuietPage /\ p_web.page = f)
      <4>1. p_saved'[f] = p_saved[f]
        BY <1>1, <3>1, <3>3 DEF QuietPage, PagesControl, PagesTypes
      <4> QED BY <2>2, <4>1 DEF PagesPublished, Pages!PublishedIsSaved, Publishing
    <3> QED BY <3>2, <3>3
  <2>3. Pages!PublishedIsSaved'
    BY <2>1, <2>2 DEF Pages!PublishedIsSaved, Publishing
  <2> QED BY <1>2, <2>3 DEF PagesPublished
<1> QED BY <1>3, <1>4

\* KETI-Edge dies and starts.
LEMMA EdgeGonePublished ==
    ASSUME PagesControl, PagesPublished, Pages!EdgeGone, UNCHANGED <<p_queue, p_published, p_saved>>
    PROVE  PagesPublished'
<1>1. p_workers' = {}
  BY DEF Pages!EdgeGone
<1>2. PICK q \in BOOLEAN : q = (p_web.quiet /\ p_web.page # "smtp")
  BY Zenon
<1>3. p_web' = [p_web EXCEPT !.quiet = q]
  BY <1>2 DEF Pages!EdgeGone
<1>4. /\ p_web'.pc = p_web.pc /\ p_web'.page = p_web.page /\ p_web'.next = p_web.next
      /\ p_web'.save = p_web.save /\ p_web'.quiet = q
  BY <1>3 DEF PagesControl, PagesTypes
<1>5. PublishingPage' => PublishingPage
  BY <1>2, <1>4 DEF PublishingPage, QuietPage
<1>6. Finished' = Finished
  BY <1>4 DEF Finished
<1>7. PublicationProgress'
  BY <1>1, <1>4, <1>5, <1>6 DEF PagesPublished, PublicationProgress, IsPublished
<1> QED BY <1>7, PublishedKept DEF PagesPublished, PagesControl, PagesTypes

\* The steps of KETI-Edge as a whole make no file.
LEMMA EdgePublished ==
    ASSUME PagesControl, PagesPublished, Pages!EdgeDie \/ Pages!EdgeStart \/ Pages!RedfishReady
    PROVE  PagesPublished'
<1>1. CASE Pages!EdgeDie
  BY <1>1, EdgeGonePublished DEF Pages!EdgeDie
<1>2. CASE Pages!EdgeStart \/ Pages!RedfishReady
  <2>1. UNCHANGED <<p_web, p_queue, p_workers, p_published, p_saved>>
    BY <1>2 DEF Pages!EdgeStart, Pages!RedfishReady
  <2>2. PublicationProgress'
    BY <2>1 DEF PagesPublished, PublicationProgress, PublishingPage, QuietPage, Finished, WorkerPublishes,
                IsPublished
  <2> QED BY <2>1, <2>2, PublishedKept DEF PagesPublished, PagesControl, PagesTypes
<1> QED BY <1>1, <1>2

\* The answer of the command that makes a file comes when the file is made.
LEMMA AnswerPublished ==
    ASSUME PagesControl, PagesPublished, NEW w \in p_workers, Pages!Answer(w)
    PROVE  PagesPublished'
<1>1. UNCHANGED <<p_published, p_saved>>
  BY AnswerFacts
<1>2. PublishingPage' <=> PublishingPage
  BY AnswerFacts DEF PublishingPage, QuietPage
<1>3. ASSUME PublishingPage PROVE PublicationProgress'
  <2>1. p_workers' = {} /\ w.own
    BY <1>3, AnswerFacts, QuietThread DEF PublishingPage
  <2>2. p_web.next >= PublishedAt[p_web.page] => IsPublished
    BY <1>3, AnswerFacts DEF PagesPublished, PublicationProgress, WorkerPublishes
  <2>3. p_web.next \in Nat
    BY DEF PagesControl, PagesTypes
  <2>4. Finished' = p_web.next
    BY <2>1, <2>3, AnswerFacts DEF Finished
  <2>5. (Finished >= PublishedAt[p_web.page] => IsPublished)'
    BY <1>1, <2>2, <2>4, AnswerFacts DEF IsPublished
  <2> QED BY <2>1, <2>5 DEF PublicationProgress
<1> QED BY <1>1, <1>2, <1>3, AnswerFacts, PublishedKept
        DEF PagesPublished, PublicationProgress, PagesControl, PagesTypes

\* In a quiet page a command finds its file whole: when it reads it, and when
\* it reads it again; and what it writes for the other programs is all of it.
LEMMA QuietRecord ==
    ASSUME PagesControl, PagesFiles, QuietPage, NEW w \in p_workers
    PROVE  /\ \/ w.at = "begin" /\ Handler(w.cmd).from = "file"
              \/ w.at = "publish"
              => Pages!IsRecord(p_files[Pages!FileOf(w.cmd)])
           /\ w.at = "fill" /\ SetBy(p_web.page, p_web.next) = Pages!Fields[p_web.page]
              => w.buf = Pages!Filled(p_web.page, p_web.save)
<1> DEFINE p == p_web.page
           n == p_web.next
<1>1. /\ p \in Pages!Files /\ n \in 1 .. Len(Pages!Commands(p)) /\ n \in Nat \ {0}
      /\ w.cmd = Current(p, n).cmd /\ Pages!FileOf(w.cmd) = Handler(w.cmd).file /\ WorkerHolds(w)
  BY QuietThread, SetByFacts DEF PagesFiles, FilesProgress
<1>2. ASSUME w.at = "begin", Handler(w.cmd).from = "file"
      PROVE  Pages!IsRecord(p_files[Pages!FileOf(w.cmd)])
  <2>1. Pages!FileOf(w.cmd) = p /\ n > 1
    BY <1>1, <1>2, PlaceFacts
  <2>2. Holds(p_files[p], n - 1) /\ n - 1 > 0
    BY <1>1, <1>2, <2>1 DEF WorkerHolds
  <2> QED BY <1>1, <2>1, <2>2, BuffersAre DEF Holds
<1>3. ASSUME w.at = "publish" PROVE Pages!IsRecord(p_files[Pages!FileOf(w.cmd)])
  <2>1. Handler(w.cmd).publishes
    BY <1>3 DEF PagesControl, PagesTypes, WorkerTyped
  <2>2. Pages!FileOf(w.cmd) = p
    BY <1>1, <2>1, PlaceFacts
  <2>3. Holds(p_files[p], n) /\ n > 0
    BY <1>1, <1>3 DEF WorkerHolds
  <2> QED BY <1>1, <2>2, <2>3, BuffersAre DEF Holds
<1>4. ASSUME w.at = "fill", SetBy(p, n) = Pages!Fields[p] PROVE w.buf = Pages!Filled(p, p_web.save)
  <2>1. Holds(w.buf, n) /\ n > 0
    BY <1>1, <1>4 DEF WorkerHolds
  <2> QED BY <1>4, <2>1 DEF Holds, Contents, Pages!Filled
<1> QED BY <1>2, <1>3, <1>4

\* Setters make no file, but for the last of a page.
LEMMA SetterPublished ==
    ASSUME PagesControl, PagesFiles, PagesPublished, NEW w \in p_workers,
           Pages!ReadFile(w) \/ Pages!OpenFile(w) \/ Pages!WriteFile(w)
    PROVE  PagesPublished'
<1> DEFINE f == Pages!FileOf(w.cmd)
<1>1. UNCHANGED <<p_queue, p_published, p_saved>>
  BY DEF Pages!ReadFile, Pages!OpenFile, Pages!WriteFile
<1>2. CASE Pages!EdgeGone
  BY <1>1, <1>2, EdgeGonePublished
<1>3. CASE ~Pages!EdgeGone
  <2>1. UNCHANGED p_web
    BY <1>3 DEF Pages!ReadFile, Pages!OpenFile, Pages!WriteFile
  <2>2. PICK at, buf :
          /\ p_workers' = Pages!Moved(w, at, buf)
          /\ \/ at \in {"read", "open", "publish"}
             \/ w.at = "begin" /\ Handler(w.cmd).from = "file" /\ ~Pages!IsRecord(p_files[f])
             \/ w.cmd = "SMTP_SENDER" /\ ~p_redfish
             \/ at = "done" /\ ~Handler(w.cmd).publishes
    <3>1. CASE Pages!ReadFile(w)
      BY <1>3, <3>1 DEF Pages!ReadFile, Handler
    <3>2. CASE Pages!OpenFile(w)
      BY <3>2 DEF Pages!OpenFile
    <3>3. CASE Pages!WriteFile(w)
      <4>1. PICK content : p_workers' = Pages!Moved(w, Pages!AfterSetter(w), content)
        BY <3>3 DEF Pages!WriteFile
      <4>2. Pages!AfterSetter(w) = "publish" \/ (Pages!AfterSetter(w) = "done" /\ ~Handler(w.cmd).publishes)
        BY DEF Pages!AfterSetter, Handler
      <4> QED BY <4>1, <4>2
    <3> QED BY <3>1, <3>2, <3>3
  <2>3. PICK v : v = [w EXCEPT !.at = at, !.buf = buf]
    OBVIOUS
  <2>4. p_workers' = (p_workers \ {w}) \cup {v}
    BY <2>2, <2>3 DEF Pages!Moved
  <2>5. v.at = at
    BY <2>3, MovedParts DEF PagesControl
  <2>6. ASSUME PublishingPage PROVE WorkerPublishes(v)'
    <3> DEFINE p == p_web.page
               n == p_web.next
    <3>1. /\ p \in Publishing /\ n \in 1 .. Len(Pages!Commands(p)) /\ w.cmd = Current(p, n).cmd
          /\ (w.cmd = "SMTP_SENDER" => p_redfish)
      BY <2>6, QuietThread DEF PublishingPage
    <3>2. \/ at \in {"read", "open", "publish"}
          \/ at = "done" /\ ~Handler(w.cmd).publishes
      BY <2>2, <2>6, <3>1, QuietRecord DEF PublishingPage
    <3>3. n - 1 >= PublishedAt[p] => IsPublished
      <4>1. WorkerPublishes(w)
        BY <2>6 DEF PagesPublished, PublicationProgress
      <4>2. w.at # "done"
        BY DEF Pages!ReadFile, Pages!OpenFile, Pages!WriteFile
      <4> QED BY <4>1, <4>2 DEF WorkerPublishes
    <3>4. n \in Nat /\ PublishedAt[p] \in Nat
      BY <3>1, PublisherFacts DEF Publishing, PublishedAt
    <3>5. at = "done" => n # PublishedAt[p]
      BY <3>1, <3>2, PublisherFacts
    <3>6. (IF at = "done" THEN n ELSE n - 1) >= PublishedAt[p] => IsPublished
      BY <3>3, <3>4, <3>5
    <3> QED BY <1>1, <2>1, <2>5, <3>2, <3>6 DEF WorkerPublishes, IsPublished
  <2>7. PublicationProgress'
    BY <1>1, <2>1, <2>4, <2>6, MovedPublished
  <2> QED BY <1>1, <2>7, PublishedKept DEF PagesPublished, PagesControl, PagesTypes
<1> QED BY <1>2, <1>3

\* A publisher that reads its settings has them all.
LEMMA PublishReadPublished ==
    ASSUME PagesControl, PagesFiles, PagesPublished, NEW w \in p_workers, Pages!PublishRead(w)
    PROVE  PagesPublished'
<1> DEFINE f == Pages!FileOf(w.cmd)
<1>1. w.at = "publish" /\ UNCHANGED <<p_web, p_queue, p_published, p_saved>>
  BY DEF Pages!PublishRead
<1>2. PICK at, buf :
        /\ p_workers' = Pages!Moved(w, at, buf)
        /\ at = "clear" \/ (at = "done" /\ ~Pages!IsRecord(p_files[f]))
  BY DEF Pages!PublishRead
<1>3. PICK v : v = [w EXCEPT !.at = at, !.buf = buf]
  OBVIOUS
<1>4. p_workers' = (p_workers \ {w}) \cup {v} /\ v.at = at
  BY <1>2, <1>3, MovedParts DEF Pages!Moved, PagesControl
<1>5. ASSUME PublishingPage PROVE WorkerPublishes(v)'
  <2>1. at = "clear"
    BY <1>1, <1>2, <1>5, QuietRecord DEF PublishingPage
  <2>2. WorkerPublishes(w)
    BY <1>5 DEF PagesPublished, PublicationProgress
  <2> QED BY <1>1, <1>4, <2>1, <2>2 DEF WorkerPublishes, IsPublished
<1>6. PublicationProgress'
  BY <1>1, <1>4, <1>5, MovedPublished
<1> QED BY <1>1, <1>6, PublishedKept DEF PagesPublished, PagesControl, PagesTypes

\* No publisher touches what was made from a file that is recorded as saved.
LEMMA SavedNotPublished ==
    ASSUME PagesControl, PagesPublished, NEW w \in p_workers, Handler(w.cmd).publishes, NEW content,
           p_published' = [p_published EXCEPT ![Pages!Published(Pages!FileOf(w.cmd)).target] = content],
           UNCHANGED p_saved
    PROVE  Pages!PublishedIsSaved'
<1>1. \A f \in Publishing : p_saved[f] # 0 =>
          Pages!Published(f).target # Pages!Published(Pages!FileOf(w.cmd)).target
  BY FieldsAre DEF PagesControl, SavedIsLeftAlone, Touches, Publishing
<1>2. \A t \in Targets : t # Pages!Published(Pages!FileOf(w.cmd)).target => p_published'[t] = p_published[t]
  <2>1. p_published = [t \in Targets |-> p_published[t]]
    BY DEF PagesControl, PagesTypes
  <2> QED BY <2>1
<1> QED BY <1>1, <1>2, PublishedAre DEF PagesPublished, Pages!PublishedIsSaved, Publishing

\* A publisher of a quiet page empties the file it makes before it writes it,
\* or only removes it, and writes all settings.
LEMMA PublishPublished ==
    ASSUME PagesControl, PagesFiles, PagesPublished, NEW w \in p_workers,
           Pages!PublishClear(w) \/ Pages!PublishWrite(w)
    PROVE  PagesPublished'
<1> DEFINE f == Pages!FileOf(w.cmd)
           t == Pages!Published(f).target
<1>1. w.at \in {"clear", "fill"} /\ UNCHANGED <<p_web, p_queue, p_saved>>
  BY DEF Pages!PublishClear, Pages!PublishWrite
<1>2. Handler(w.cmd).publishes /\ w.cmd \in Cmds
  BY <1>1 DEF PagesControl, PagesTypes, WorkerTyped
<1>3. PICK at, buf, content :
        /\ p_workers' = Pages!Moved(w, at, buf)
        /\ p_published' = [p_published EXCEPT ![t] = content]
        /\ \/ w.at = "clear" /\ w.cmd = "RADIUS_DISABLE" /\ at = "done"
           \/ w.at = "clear" /\ at = "fill" /\ ~Pages!IsRecord(content)
           \/ /\ w.at = "fill" /\ at = "done"
              /\ ~Pages!IsRecord(p_published[t]) => content = w.buf
  <2>1. CASE Pages!PublishClear(w)
    BY <2>1 DEF Pages!PublishClear, Pages!IsRecord
  <2>2. CASE Pages!PublishWrite(w)
    BY <2>2 DEF Pages!PublishWrite
  <2> QED BY <2>1, <2>2
<1>4. PICK v : v = [w EXCEPT !.at = at, !.buf = buf]
  OBVIOUS
<1>5. p_workers' = (p_workers \ {w}) \cup {v} /\ v.at = at
  BY <1>3, <1>4, MovedParts DEF Pages!Moved, PagesControl
<1>6. f \in Publishing /\ t \in Targets
  BY <1>2, HandlerFacts, PublishedAre
<1>7. p_published'[t] = content
  BY <1>3, <1>6 DEF PagesControl, PagesTypes
<1>8. ASSUME PublishingPage PROVE WorkerPublishes(v)'
  <2> DEFINE p == p_web.page
             n == p_web.next
  <2>1. /\ p \in Publishing /\ n \in 1 .. Len(Pages!Commands(p)) /\ w.cmd = Current(p, n).cmd
        /\ f = Handler(w.cmd).file
    BY <1>8, QuietThread DEF PublishingPage
  <2>2. f = p
    BY <1>2, <2>1, PlaceFacts, PublisherFacts
  <2>3. n \in Nat /\ PublishedAt[p] \in Nat /\ PublishedAt[p] > 1
    BY <2>1 DEF Publishing, PublishedAt, PagesControl, PagesTypes
  <2>4. CASE n = PublishedAt[p]
    <3>1. SetBy(p, n) = Pages!Fields[p] /\ w.cmd # "RADIUS_DISABLE"
      BY <2>1, <2>4, PublisherFacts
    <3>2. CASE at = "fill"
      <4>1. ~Pages!IsRecord(p_published'[t])
        BY <1>1, <1>3, <1>7, <3>2
      <4>2. ~(n - 1 >= PublishedAt[p])
        BY <2>3, <2>4
      <4> QED BY <1>1, <1>5, <2>2, <3>2, <4>1, <4>2 DEF WorkerPublishes
    <3>3. CASE at # "fill"
      <4>1. w.at = "fill" /\ at = "done" /\ (~Pages!IsRecord(p_published[t]) => content = w.buf)
        BY <1>3, <3>1, <3>3
      <4>2. ~Pages!IsRecord(p_published[t])
        BY <1>8, <2>2, <4>1 DEF PagesPublished, PublicationProgress, WorkerPublishes
      <4>3. content = Pages!Filled(p, p_web.save)
        BY <1>8, <3>1, <4>1, <4>2, QuietRecord DEF PublishingPage
      <4>4. IsPublished'
        BY <1>1, <1>7, <2>2, <4>3 DEF IsPublished
      <4> QED BY <1>1, <1>5, <4>1, <4>4 DEF WorkerPublishes
    <3> QED BY <3>2, <3>3
  <2>5. CASE n # PublishedAt[p]
    <3>1. n = 1 /\ w.cmd = "RADIUS_DISABLE"
      BY <1>2, <2>1, <2>5, PublisherFacts
    <3>2. ~(n >= PublishedAt[p]) /\ ~(n - 1 >= PublishedAt[p])
      BY <2>3, <3>1
    <3>3. at = "fill" => ~Pages!IsRecord(p_published'[t])
      BY <1>3, <1>7
    <3> QED BY <1>1, <1>5, <2>2, <3>2, <3>3 DEF WorkerPublishes
  <2> QED BY <2>4, <2>5
<1>9. PublicationProgress'
  BY <1>1, <1>5, <1>8, MovedPublished
<1>10. Pages!PublishedIsSaved'
  BY <1>1, <1>2, <1>3, SavedNotPublished
<1> QED BY <1>9, <1>10 DEF PagesPublished

\* The display of NTP makes no file.
LEMMA ShowNtpPublished ==
    ASSUME PagesControl, PagesPublished, NEW w \in p_workers, Pages!ShowNtp(w)
    PROVE  PagesPublished'
<1>1. /\ w.cmd = "GET_NTP" /\ p_workers' = Pages!Moved(w, "done", Pages!Empty)
      /\ UNCHANGED <<p_web, p_queue, p_published>>
      /\ p_saved' = [p_saved EXCEPT !.ntp = 0] \/ UNCHANGED p_saved
  BY DEF Pages!ShowNtp
<1>2. ~QuietPage
  <2>1. Handler("GET_NTP").from = "none"
    BY HandlersAre DEF Pages!Setter
  <2> QED BY <1>1, <2>1, QuietThread, PlaceFacts
<1>3. PublicationProgress'
  BY <1>1, <1>2 DEF PublicationProgress, PublishingPage, QuietPage
<1>4. \A f \in Pages!Files : p_saved'[f] \in {0, p_saved[f]}
  BY <1>1 DEF PagesControl, PagesTypes
<1> QED BY <1>1, <1>3, <1>4, PublishedKept DEF PagesPublished

\* Nothing is saved at the start.
LEMMA InitPublished == Pages!Init => PagesPublished
<1> SUFFICES ASSUME Pages!Init PROVE PagesPublished
  OBVIOUS
<1>1. p_web = Pages!Idle /\ \A f \in Pages!Files : p_saved[f] = 0
  BY DEF Pages!Init
<1>2. Publishing \subseteq Pages!Files
  BY FieldsAre DEF Publishing
<1> QED BY <1>1, <1>2, WebResets
        DEF PagesPublished, PublicationProgress, PublishingPage, QuietPage, Pages!PublishedIsSaved, Publishing

\* Every step keeps what the files made from the settings have.
LEMMA StepPublished == PagesControl /\ PagesFiles /\ PagesPublished /\ Pages!Next => PagesPublished'
  BY WebPublished, SendPublished, FinishPublished, EdgePublished, AnswerPublished, SetterPublished,
     PublishReadPublished, PublishPublished, ShowNtpPublished DEF Pages!Next

-----------------------------------------------------------------------------
(* Layer 4: the two directories.                                           *)

\* The last command of a directory page, and only it, goes to the other one,
\* and disables it.
LEMMA DirectoryFacts ==
    ASSUME NEW p \in Pages!Directories, NEW n \in 1 .. Len(Pages!Commands(p))
    PROVE  LET c == Current(p, n)
               h == Handler(c.cmd)
           IN  /\ h.file = p \/ h.file = Other(p)
               /\ n = Len(Pages!Commands(p)) <=> h.file = Other(p)
               /\ h.file = Other(p) => h.from = "zero" /\ ~h.publishes /\ ~c.on
               /\ p \in Pages!Files /\ Other(p) \in Pages!Directories /\ p # Other(p)
<1> DEFINE c == Current(p, n)
           h == Handler(c.cmd)
           Fits(k) == /\ h.file = p \/ h.file = Other(p)
                      /\ n = k <=> h.file = Other(p)
                      /\ h.file = Other(p) => h.from = "zero" /\ ~h.publishes /\ ~c.on
<1>1. Len(Pages!Commands("ad")) = 5 /\ Len(Pages!Commands("ldap")) = 9
  BY PagesAre
<1>2. p \in Pages!Files /\ Other(p) \in Pages!Directories /\ p # Other(p)
  BY FieldsAre DEF Pages!Directories, Other
<1>3. CASE p = "ad"
  <2>1. n \in 1 .. 5
    BY <1>1, <1>3
  <2>2. n = 1 \/ n = 2 \/ n = 3 \/ n = 4 \/ n = 5
    BY <2>1
  <2>3. Fits(5)
    <3> USE PlacesAre, HandlersAre, <1>3 DEF Pages!On, Pages!Off, Pages!Setter, Pages!Publisher, Other
    <3>1. CASE n = 1 \/ n = 2 \/ n = 3
      BY <3>1
    <3>2. CASE n = 4 \/ n = 5
      BY <3>2
    <3> QED BY <2>2, <3>1, <3>2
  <2> HIDE DEF Fits
  <2>4. Fits(Len(Pages!Commands(p)))
    BY <1>1, <1>3, <2>3
  <2> QED BY <1>2, <2>4 DEF Fits
<1>4. CASE p = "ldap"
  <2>1. n \in 1 .. 9
    BY <1>1, <1>4
  <2>2. n = 1 \/ n = 2 \/ n = 3 \/ n = 4 \/ n = 5 \/ n = 6 \/ n = 7 \/ n = 8 \/ n = 9
    BY <2>1
  <2>3. Fits(9)
    <3> USE PlacesAre, HandlersAre, <1>4 DEF Pages!On, Pages!Off, Pages!Setter, Pages!Publisher, Other
    <3>1. CASE n = 1 \/ n = 2 \/ n = 3
      BY <3>1
    <3>2. CASE n = 4 \/ n = 5 \/ n = 6
      BY <3>2
    <3>3. CASE n = 7 \/ n = 8 \/ n = 9
      BY <3>3
    <3> QED BY <2>2, <3>1, <3>2, <3>3
  <2> HIDE DEF Fits
  <2>4. Fits(Len(Pages!Commands(p)))
    BY <1>1, <1>4, <2>3
  <2> QED BY <1>2, <2>4 DEF Fits
<1> QED BY <1>3, <1>4 DEF Pages!Directories

\* One that can do more is of the directory page that is saved, or left from
\* one that was broken off; no command of a directory page enables the other.
LEMMA WhoEnables ==
    ASSUME PagesControl, NEW r, r.cmd \in Cmds, Pages!FileOf(r.cmd) \in Pages!Directories,
           r.own, IsCurrent(r)
    PROVE  /\ p_web.page \notin Pages!Directories => Disabling(r)
           /\ p_web.page \in Pages!Directories /\ Pages!FileOf(r.cmd) = Other(p_web.page)
              => Disabling(r) /\ ~Handler(r.cmd).publishes
           /\ p_web.page \in Pages!Directories
              => Pages!FileOf(r.cmd) \in {p_web.page, Other(p_web.page)}
<1>1. /\ p_web.page \in Pages!Pages /\ p_web.next \in 1 .. Len(Pages!Commands(p_web.page))
      /\ Pages!FileOf(r.cmd) = Handler(r.cmd).file
  BY HandlerFacts DEF PagesControl, PagesTypes
<1>2. /\ r.cmd = Current(p_web.page, p_web.next).cmd
      /\ r.value = IF Current(p_web.page, p_web.next).on THEN p_web.save ELSE 0
  BY DEF IsCurrent
<1>3. p_web.page \notin Pages!Directories => Disabling(r)
  BY <1>1, <1>2, CommandFacts DEF Disabling
<1>4. ASSUME p_web.page \in Pages!Directories
      PROVE  /\ Pages!FileOf(r.cmd) \in {p_web.page, Other(p_web.page)}
             /\ Pages!FileOf(r.cmd) = Other(p_web.page) => Disabling(r) /\ ~Handler(r.cmd).publishes
  BY <1>1, <1>2, <1>4, DirectoryFacts DEF Disabling
<1> QED BY <1>3, <1>4

\* Steps that do not enable a directory and leave the page keep that one is not.
LEMMA DirectoryKept ==
    ASSUME Pages!OneDirectory, \A d \in Pages!Directories : Pages!Enabled(d)' => Pages!Enabled(d),
           p_broken => p_broken',
           p_web.pc # "down" /\ p_web.page \in Pages!Directories
               => p_broken' \/ (p_web'.pc # "down" /\ p_web'.page \in Pages!Directories)
    PROVE  Pages!OneDirectory'
<1>1. "ad" \in Pages!Directories /\ "ldap" \in Pages!Directories
  BY DEF Pages!Directories
<1> QED BY <1>1 DEF Pages!OneDirectory

\* Whether a directory is enabled is in its file.
LEMMA EnabledKept ==
    ASSUME UNCHANGED p_files
    PROVE  \A d \in Pages!Directories : Pages!Enabled(d)' <=> Pages!Enabled(d)
  BY DEF Pages!Enabled

\* The steps of the web server that leave the files alone.
LEMMA WebDirectories ==
    ASSUME PagesControl, PagesDirectories,
           \/ Pages!WebStart \/ Pages!StartPage \/ Pages!NtpManual \/ Pages!SendCommand
           \/ Pages!SetTimelimitFails
    PROVE  PagesDirectories'
<1>1. \A d \in Pages!Directories : Pages!Enabled(d)' <=> Pages!Enabled(d)
  <2>1. \A d \in Pages!Directories : p_files'[d] = p_files[d]
    BY FieldsAre DEF Pages!WebStart, Pages!StartPage, Pages!NtpManual, Pages!SendCommand,
       Pages!SetTimelimitFails, PagesControl, PagesTypes, Pages!Directories
  <2> QED BY <2>1 DEF Pages!Enabled
<1>2. "ntpShow" \notin Pages!Directories
  BY DEF Pages!Directories
<1>3. CASE Pages!SetTimelimitFails
  <2>1. p_broken' /\ p_web' = Pages!Down
    BY <1>3 DEF Pages!SetTimelimitFails
  <2> QED BY <1>2, <2>1, WebResets
          DEF PagesDirectories, Pages!OneDirectory, LeftOversDisable, OtherIsDisabled
<1>4. CASE Pages!WebStart
  <2>1. p_web.pc = "down" /\ p_web' = Pages!Idle /\ UNCHANGED <<p_broken, p_queue, p_workers>>
    BY <1>4 DEF Pages!WebStart
  <2>2. Pages!OneDirectory'
    BY <1>1, <2>1, DirectoryKept DEF PagesDirectories
  <2> QED BY <1>2, <2>1, <2>2, WebResets DEF PagesDirectories, LeftOversDisable, OtherIsDisabled
<1>5. CASE Pages!StartPage \/ Pages!NtpManual
  <2>1. /\ p_web.pc = "idle" /\ p_web.page = "ntpShow"
        /\ UNCHANGED <<p_broken, p_queue, p_workers>>
        /\ p_web'.pc = "call" \/ UNCHANGED p_web
    BY <1>5 DEF Pages!StartPage, Pages!NtpManual, PagesControl, PagesTypes
  <2>2. Pages!OneDirectory'
    BY <1>1, <1>2, <2>1, DirectoryKept DEF PagesDirectories
  <2>3. LeftOversDisable'
    BY <2>1 DEF PagesDirectories, LeftOversDisable
  <2>4. \A w \in p_workers : ~w.own
    BY <2>1 DEF PagesControl, OwnIsCurrent, IsCurrent
  <2> QED BY <2>1, <2>2, <2>3, <2>4 DEF PagesDirectories, OtherIsDisabled
<1>6. CASE Pages!SendCommand
  <2>1. PICK e : e.own /\ p_queue' = Append(p_queue, e)
                 /\ e \in [cmd : Cmds, value : Nat, own : BOOLEAN]
    <3>1. PICK q : p_queue' = Append(p_queue, q)
                   /\ q = [cmd |-> Current(p_web.page, p_web.next).cmd,
                           value |-> IF Current(p_web.page, p_web.next).on THEN p_web.save ELSE 0,
                           own |-> TRUE]
      BY <1>6 DEF Pages!SendCommand, Current
    <3>2. /\ p_web.page \in Pages!Pages /\ p_web.next \in 1 .. Len(Pages!Commands(p_web.page))
          /\ p_web.save \in Nat
      BY WebParts DEF PagesControl
    <3>3. PICK v \in Nat : v = IF Current(p_web.page, p_web.next).on THEN p_web.save ELSE 0
      BY <3>2
    <3>4. Current(p_web.page, p_web.next).cmd \in Cmds
      BY <3>2, CommandFacts
    <3>5. PICK yes \in BOOLEAN : yes
      OBVIOUS
    <3>6. q = [cmd |-> Current(p_web.page, p_web.next).cmd, value |-> v, own |-> yes]
      BY <3>1, <3>3, <3>5
    <3>7. q.own /\ q \in [cmd : Cmds, value : Nat, own : BOOLEAN]
      BY <3>4, <3>5, <3>6
    <3> QED BY <3>1, <3>7
  <2>2. \A i \in DOMAIN p_queue' : (i \in DOMAIN p_queue /\ p_queue'[i] = p_queue[i]) \/ p_queue'[i] = e
    BY <2>1, QueueAppend DEF PagesControl, PagesTypes
  <2>3. /\ p_web'.pc = "wait" /\ p_web'.page = p_web.page /\ p_web'.quiet = p_web.quiet
        /\ UNCHANGED <<p_broken, p_workers>>
    BY <1>6 DEF Pages!SendCommand, PagesControl, PagesTypes
  <2>4. Pages!OneDirectory'
    BY <1>1, <2>3, DirectoryKept DEF PagesDirectories
  <2>5. LeftOversDisable'
    BY <2>1, <2>2, <2>3 DEF PagesDirectories, LeftOversDisable, Disabling
  <2>6. OtherIsDisabled'
    <3>1. p_web.page \in Pages!Directories => Other(p_web.page) \in Pages!Directories
      BY DEF Other, Pages!Directories
    <3> QED BY <1>1, <2>3, <3>1 DEF PagesDirectories, OtherIsDisabled
  <2> QED BY <2>4, <2>5, <2>6 DEF PagesDirectories
<1> QED BY <1>3, <1>4, <1>5, <1>6

\* An answered directory page leaves the other one disabled; if it was quiet
\* nothing is left of one that was broken off.
LEMMA FinishDirectories ==
    ASSUME PagesControl, PagesDirectories, Pages!FinishPage
    PROVE  PagesDirectories'
<1>1. /\ p_web.pc = "finish" /\ p_web' = Pages!Idle
      /\ p_broken' = (p_broken /\ ~(p_web.page \in Pages!Directories /\ p_web.quiet))
      /\ UNCHANGED <<p_queue, p_workers, p_files>>
  BY DEF Pages!FinishPage
<1>2. "ntpShow" \notin Pages!Directories
  BY DEF Pages!Directories
<1>3. \A d \in Pages!Directories : Pages!Enabled(d)' <=> Pages!Enabled(d)
  BY <1>1, EnabledKept
<1>4. Pages!OneDirectory'
  <2>1. CASE p_web.page \in Pages!Directories /\ (~p_broken \/ p_web.quiet)
    <3>1. ~Pages!Enabled(Other(p_web.page))
      BY <1>1, <2>1 DEF PagesDirectories, OtherIsDisabled
    <3>2. ~(Pages!Enabled("ad") /\ Pages!Enabled("ldap"))
      BY <2>1, <3>1 DEF Other, Pages!Directories
    <3> QED BY <1>3, <3>2 DEF Pages!OneDirectory, Pages!Directories
  <2>2. CASE ~(p_web.page \in Pages!Directories /\ (~p_broken \/ p_web.quiet))
    <3>1. p_web.page \in Pages!Directories => p_broken
      BY <2>2
    <3>2. p_broken' <=> p_broken
      BY <1>1, <2>2
    <3> QED BY <1>3, <3>1, <3>2 DEF PagesDirectories, Pages!OneDirectory, Pages!Directories
  <2> QED BY <2>1, <2>2
<1>5. LeftOversDisable'
  <2>1. CASE p_broken => p_broken'
    BY <1>1, <2>1 DEF PagesDirectories, LeftOversDisable
  <2>2. CASE ~(p_broken => p_broken')
    <3>1. DOMAIN p_queue = {} /\ p_workers = {}
      BY <1>1, <2>2, NothingAtFinish
    <3> QED BY <1>1, <3>1 DEF LeftOversDisable
  <2> QED BY <2>1, <2>2
<1>6. OtherIsDisabled'
  BY <1>1, <1>2, WebResets DEF OtherIsDisabled
<1> QED BY <1>4, <1>5, <1>6 DEF PagesDirectories

\* A web server that dies in a page of another kind leaves a command that can
\* only disable a directory.
LEMMA WebDieDirectories ==
    ASSUME PagesControl, PagesDirectories, Pages!WebDie
    PROVE  PagesDirectories'
<1>1. /\ p_web' = Pages!Down /\ p_workers' = Pages!Disowned(p_workers) /\ p_web.pc # "down"
      /\ p_queue' = [i \in DOMAIN p_queue |-> [p_queue[i] EXCEPT !.own = FALSE]]
      /\ p_broken' = (p_broken \/ (p_web.pc # "idle" /\ p_web.page \in Pages!Directories))
      /\ UNCHANGED p_files
  BY DEF Pages!WebDie
<1>2. "ntpShow" \notin Pages!Directories
  BY DEF Pages!Directories
<1>3. p_web.page \in Pages!Directories => p_broken'
  BY <1>1, <1>2 DEF PagesControl, PagesTypes
<1>4. Pages!OneDirectory'
  <2>1. \A d \in Pages!Directories : Pages!Enabled(d)' <=> Pages!Enabled(d)
    BY <1>1, EnabledKept
  <2> QED BY <1>1, <1>3, <2>1, DirectoryKept DEF PagesDirectories
<1>5. OtherIsDisabled'
  BY <1>1, <1>2, WebResets DEF OtherIsDisabled
<1>6. ASSUME ~p_broken', NEW r, r.cmd \in Cmds, r.own => IsCurrent(r),
             ~r.own /\ Pages!FileOf(r.cmd) \in Pages!Directories => Disabling(r),
             Pages!FileOf(r.cmd) \in Pages!Directories
      PROVE  Disabling(r)
  BY <1>3, <1>6, WhoEnables
<1>7. LeftOversDisable'
  <2> SUFFICES ASSUME ~p_broken' PROVE LeftOversDisable'
    BY DEF LeftOversDisable
  <2>1. ~p_broken
    BY <1>1
  <2>2. ASSUME NEW i \in DOMAIN p_queue', Pages!FileOf(p_queue'[i].cmd) \in Pages!Directories
        PROVE  Disabling(p_queue'[i])
    <3>1. i \in DOMAIN p_queue /\ p_queue[i] \in [cmd : Cmds, value : Nat, own : BOOLEAN]
      <4>1. p_queue \in Seq([cmd : Cmds, value : Nat, own : BOOLEAN]) /\ i \in DOMAIN p_queue
        BY <1>1 DEF PagesControl, PagesTypes
      <4>2. DOMAIN p_queue = 1 .. Len(p_queue)
        BY <4>1, LenProperties
      <4> QED BY <4>1, <4>2, ElementOfSeq
    <3>2. p_queue'[i].cmd = p_queue[i].cmd /\ p_queue'[i].value = p_queue[i].value
      BY <1>1, <3>1
    <3>3. /\ p_queue[i].own => IsCurrent(p_queue[i])
          /\ ~p_queue[i].own /\ Pages!FileOf(p_queue[i].cmd) \in Pages!Directories => Disabling(p_queue[i])
      BY <2>1, <3>1 DEF PagesControl, OwnIsCurrent, PagesDirectories, LeftOversDisable
    <3>4. Disabling(p_queue[i])
      BY <1>6, <2>2, <3>1, <3>2, <3>3
    <3> QED BY <3>2, <3>4 DEF Disabling
  <2>3. ASSUME NEW v \in p_workers', Pages!FileOf(v.cmd) \in Pages!Directories
        PROVE  Disabling(v)
    <3>1. PICK w \in p_workers : v = [w EXCEPT !.own = FALSE]
      BY <1>1 DEF Pages!Disowned
    <3>2. WorkerTyped(w)
      BY DEF PagesControl, PagesTypes
    <3>3. v.cmd = w.cmd /\ v.value = w.value /\ w.cmd \in Cmds
      BY <3>1, <3>2 DEF WorkerTyped
    <3>4. /\ w.own => IsCurrent(w)
          /\ ~w.own /\ Pages!FileOf(w.cmd) \in Pages!Directories => Disabling(w)
      BY <2>1 DEF PagesControl, OwnIsCurrent, PagesDirectories, LeftOversDisable
    <3>5. Disabling(w)
      BY <1>6, <2>3, <3>3, <3>4
    <3> QED BY <3>3, <3>5 DEF Disabling
  <2> QED BY <2>2, <2>3 DEF LeftOversDisable
<1> QED BY <1>4, <1>5, <1>7 DEF PagesDirectories

\* What a thread is made for was in the queue.
LEMMA TakeDirectories ==
    ASSUME PagesControl, PagesDirectories, Pages!Take
    PROVE  PagesDirectories'
<1>1. PICK v : /\ v = [cmd |-> Head(p_queue).cmd, value |-> Head(p_queue).value,
                       own |-> Head(p_queue).own, at |-> "begin", buf |-> Pages!Empty]
               /\ p_workers' = p_workers \cup {v}
  BY DEF Pages!Take
<1>2. p_queue # <<>> /\ p_queue' = Tail(p_queue) /\ UNCHANGED <<p_web, p_files, p_broken>>
  BY DEF Pages!Take
<1>3. /\ 1 \in DOMAIN p_queue /\ Head(p_queue) = p_queue[1]
      /\ \A i \in DOMAIN p_queue' : i + 1 \in DOMAIN p_queue /\ p_queue'[i] = p_queue[i + 1]
  BY <1>2, QueueTail DEF PagesControl, PagesTypes
<1>4. v.cmd = p_queue[1].cmd /\ v.value = p_queue[1].value /\ v.own = p_queue[1].own /\ v.at = "begin"
  BY <1>1, <1>3
<1>5. \A d \in Pages!Directories : Pages!Enabled(d)' <=> Pages!Enabled(d)
  BY <1>2, EnabledKept
<1>6. Pages!OneDirectory'
  BY <1>2, <1>5, DirectoryKept DEF PagesDirectories
<1>7. LeftOversDisable'
  BY <1>1, <1>2, <1>3, <1>4 DEF PagesDirectories, LeftOversDisable, Disabling
<1>8. OtherIsDisabled'
  <2>1. p_web.page \in Pages!Directories => Other(p_web.page) \in Pages!Directories
    BY DEF Other, Pages!Directories
  <2> QED BY <1>1, <1>2, <1>4, <1>5, <2>1 DEF PagesDirectories, OtherIsDisabled
<1> QED BY <1>6, <1>7, <1>8 DEF PagesDirectories

\* KETI-Edge dies and starts.
LEMMA EdgeGoneDirectories ==
    ASSUME PagesControl, PagesDirectories, Pages!EdgeGone, UNCHANGED <<p_queue, p_files, p_broken>>
    PROVE  PagesDirectories'
<1>1. p_workers' = {}
  BY DEF Pages!EdgeGone
<1>2. PICK q \in BOOLEAN : q = (p_web.quiet /\ p_web.page # "smtp")
  BY Zenon
<1>3. p_web' = [p_web EXCEPT !.quiet = q]
  BY <1>2 DEF Pages!EdgeGone
<1>4. p_web'.pc = p_web.pc /\ p_web'.page = p_web.page /\ p_web'.quiet = q
  BY <1>3 DEF PagesControl, PagesTypes
<1>5. \A d \in Pages!Directories : Pages!Enabled(d)' <=> Pages!Enabled(d)
  BY EnabledKept
<1>6. Pages!OneDirectory'
  BY <1>4, <1>5, DirectoryKept DEF PagesDirectories
<1>7. LeftOversDisable'
  BY <1>1 DEF PagesDirectories, LeftOversDisable
<1>8. OtherIsDisabled'
  <2>1. p_web.page \in Pages!Directories => Other(p_web.page) \in Pages!Directories
    BY DEF Other, Pages!Directories
  <2> QED BY <1>1, <1>2, <1>4, <1>5, <2>1 DEF PagesDirectories, OtherIsDisabled
<1> QED BY <1>6, <1>7, <1>8 DEF PagesDirectories

\* The steps of KETI-Edge as a whole.
LEMMA EdgeDirectories ==
    ASSUME PagesControl, PagesDirectories, Pages!EdgeDie \/ Pages!EdgeStart \/ Pages!RedfishReady
    PROVE  PagesDirectories'
<1>1. CASE Pages!EdgeDie
  BY <1>1, EdgeGoneDirectories DEF Pages!EdgeDie
<1>2. CASE Pages!EdgeStart \/ Pages!RedfishReady
  <2>1. UNCHANGED <<p_web, p_queue, p_workers, p_files, p_broken>>
    BY <1>2 DEF Pages!EdgeStart, Pages!RedfishReady
  <2> QED BY <2>1 DEF PagesDirectories, Pages!OneDirectory, Pages!Enabled, LeftOversDisable, OtherIsDisabled
<1> QED BY <1>1, <1>2

\* A directory page is answered with its last command, which goes to the other
\* directory.
LEMMA AnswerDirectories ==
    ASSUME PagesControl, PagesDirectories, NEW w \in p_workers, Pages!Answer(w)
    PROVE  PagesDirectories'
<1>1. \A d \in Pages!Directories : Pages!Enabled(d)' <=> Pages!Enabled(d)
  BY AnswerFacts, EnabledKept
<1>2. Pages!OneDirectory'
  BY <1>1, AnswerFacts, DirectoryKept DEF PagesDirectories
<1>3. LeftOversDisable'
  BY AnswerFacts DEF PagesDirectories, LeftOversDisable
<1>4. OtherIsDisabled'
  <2> SUFFICES ASSUME p_web.page \in Pages!Directories, ~p_broken \/ p_web.quiet
               PROVE  OtherIsDisabled'
    BY AnswerFacts DEF OtherIsDisabled
  <2>1. Other(p_web.page) \in Pages!Directories
    BY DEF Other, Pages!Directories
  <2>2. \A v \in p_workers : v.own /\ Pages!FileOf(v.cmd) = Other(p_web.page) /\ v.at = "done"
                                => ~Pages!Enabled(Other(p_web.page))
    BY DEF PagesDirectories, OtherIsDisabled
  <2>3. CASE ~w.own
    BY <1>1, <2>1, <2>3, AnswerFacts DEF PagesDirectories, OtherIsDisabled
  <2>4. CASE w.own
    <3>1. p_web.next = Len(Pages!Commands(p_web.page)) => Pages!FileOf(w.cmd) = Other(p_web.page)
      <4>1. IsCurrent(w) /\ p_web.next \in 1 .. Len(Pages!Commands(p_web.page))
        BY <2>4, AnswerFacts DEF PagesControl, PagesTypes
      <4>2. w.cmd = Current(p_web.page, p_web.next).cmd
        BY <4>1 DEF IsCurrent
      <4>3. Pages!FileOf(w.cmd) = Handler(w.cmd).file
        BY DEF Pages!FileOf, Handler
      <4> QED BY <4>1, <4>2, <4>3, DirectoryFacts
    <3>2. p_web'.pc = "finish" => ~Pages!Enabled(Other(p_web.page))
      BY <2>2, <2>4, <3>1, AnswerFacts
    <3> QED BY <1>1, <2>1, <2>4, <3>2, AnswerFacts DEF OtherIsDisabled
  <2> QED BY <2>3, <2>4
<1> QED BY <1>2, <1>3, <1>4 DEF PagesDirectories

\* A thread that goes on, and enables no directory, leaves what layer 4 says
\* when it is not done with the other directory, or that one is disabled.
LEMMA MovedDirectories ==
    ASSUME PagesControl, PagesDirectories, NEW w \in p_workers, NEW v,
           p_workers' = (p_workers \ {w}) \cup {v}, v.cmd = w.cmd, v.value = w.value, v.own = w.own,
           UNCHANGED <<p_web, p_queue, p_broken>>,
           \A d \in Pages!Directories :
               p_broken \/ (p_web.pc # "down" /\ p_web.page \in Pages!Directories)
               \/ (Pages!Enabled(d)' => Pages!Enabled(d)),
           p_web.page \in Pages!Directories /\ (~p_broken \/ p_web.quiet) =>
               /\ Pages!Enabled(Other(p_web.page))' => Pages!Enabled(Other(p_web.page))
               /\ v.own /\ Pages!FileOf(v.cmd) = Other(p_web.page) /\ v.at = "done"
                      => ~Pages!Enabled(Other(p_web.page))'
    PROVE  PagesDirectories'
<1>1. Pages!OneDirectory'
  <2>1. "ad" \in Pages!Directories /\ "ldap" \in Pages!Directories
    BY DEF Pages!Directories
  <2> QED BY <2>1 DEF PagesDirectories, Pages!OneDirectory
<1>2. LeftOversDisable'
  BY DEF PagesDirectories, LeftOversDisable, Disabling
<1>3. OtherIsDisabled'
  <2> SUFFICES ASSUME p_web.page \in Pages!Directories, ~p_broken \/ p_web.quiet
               PROVE  OtherIsDisabled'
    BY DEF OtherIsDisabled
  <2>1. /\ p_web.pc = "finish" => ~Pages!Enabled(Other(p_web.page))'
        /\ \A x \in p_workers : x.own /\ Pages!FileOf(x.cmd) = Other(p_web.page) /\ x.at = "done"
                                   => ~Pages!Enabled(Other(p_web.page))'
    BY DEF PagesDirectories, OtherIsDisabled
  <2>2. \A x \in p_workers' : x.own /\ Pages!FileOf(x.cmd) = Other(p_web.page) /\ x.at = "done"
                                   => ~Pages!Enabled(Other(p_web.page))'
    BY <2>1
  <2>3. Other(p_web.page)' = Other(p_web.page)
    BY DEF Other
  <2> QED BY <2>1, <2>2, <2>3 DEF OtherIsDisabled, Pages!Enabled
<1> QED BY <1>1, <1>2, <1>3 DEF PagesDirectories

\* The command of a directory page that goes to the other directory neither
\* reads nor makes a file.
LEMMA OtherCommand ==
    ASSUME PagesControl, NEW w \in p_workers, w.own, p_web.page \in Pages!Directories,
           Pages!FileOf(w.cmd) = Other(p_web.page)
    PROVE  Disabling(w) /\ ~Handler(w.cmd).publishes
<1>1. IsCurrent(w) /\ w.cmd \in Cmds
  BY ThreadParts DEF PagesControl, OwnIsCurrent
<1>2. Other(p_web.page) \in Pages!Directories
  BY DEF Other, Pages!Directories
<1> QED BY <1>1, <1>2, WhoEnables

\* Threads that read, open a file, or make one, enable nothing.
LEMMA QuietDirectories ==
    ASSUME PagesControl, PagesDirectories, NEW w \in p_workers,
           \/ Pages!ReadFile(w) \/ Pages!OpenFile(w) \/ Pages!PublishRead(w)
           \/ Pages!PublishClear(w) \/ Pages!PublishWrite(w) \/ Pages!ShowNtp(w)
    PROVE  PagesDirectories'
<1> DEFINE f == Pages!FileOf(w.cmd)
<1>1. WorkerTyped(w) /\ w.cmd \in Cmds /\ f \in Pages!Files
  BY ThreadParts DEF PagesControl, PagesTypes
<1>2. \A d \in Pages!Directories : Pages!Enabled(d)' => Pages!Enabled(d)
  <2>1. \A d \in Pages!Directories : d \in Pages!Files /\ d # "ntp"
    BY FieldsAre DEF Pages!Directories
  <2>2. CASE Pages!OpenFile(w)
    <3>1. \A d \in Pages!Directories : p_files'[d] \in {p_files[d], Pages!Empty}
      BY <1>1, <2>1, <2>2 DEF Pages!OpenFile, PagesControl, PagesTypes
    <3> QED BY <3>1 DEF Pages!Enabled, Pages!IsRecord
  <2>3. CASE ~Pages!OpenFile(w)
    <3>1. \A d \in Pages!Directories : p_files'[d] = p_files[d]
      <4>1. \/ UNCHANGED p_files
            \/ p_files' = [p_files EXCEPT !.ntp = p_files.ntpbak, !.ntpbak = Pages!Absent]
        BY <2>3 DEF Pages!ReadFile, Pages!PublishRead, Pages!PublishClear, Pages!PublishWrite, Pages!ShowNtp
      <4>2. \A d \in Pages!Directories : d # "ntpbak"
        BY DEF Pages!Directories
      <4> QED BY <2>1, <4>1, <4>2 DEF PagesControl, PagesTypes
    <3> QED BY <3>1 DEF Pages!Enabled
  <2> QED BY <2>2, <2>3
<1>3. UNCHANGED <<p_queue, p_broken>>
  BY DEF Pages!ReadFile, Pages!OpenFile, Pages!PublishRead, Pages!PublishClear, Pages!PublishWrite,
         Pages!ShowNtp
<1>4. CASE Pages!ReadFile(w) /\ Pages!EdgeGone
  BY <1>3, <1>4, EdgeGoneDirectories DEF Pages!ReadFile
<1>5. CASE ~(Pages!ReadFile(w) /\ Pages!EdgeGone)
  <2>1. UNCHANGED p_web
    BY <1>5 DEF Pages!ReadFile, Pages!OpenFile, Pages!PublishRead, Pages!PublishClear,
                Pages!PublishWrite, Pages!ShowNtp
  <2>2. PICK at, buf :
          /\ p_workers' = Pages!Moved(w, at, buf)
          /\ at = "done" => \/ Handler(w.cmd).from = "file" \/ Handler(w.cmd).publishes
                            \/ w.cmd = "SMTP_SENDER" \/ w.cmd = "GET_NTP"
    <3>1. CASE Pages!ReadFile(w)
      <4>1. Handler(w.cmd).from = "file"
        BY <3>1 DEF Pages!ReadFile, Handler
      <4>2. \E at, buf : p_workers' = Pages!Moved(w, at, buf)
        BY <1>5, <3>1 DEF Pages!ReadFile
      <4> QED BY <4>1, <4>2
    <3>2. CASE Pages!OpenFile(w)
      BY <3>2 DEF Pages!OpenFile
    <3>3. CASE Pages!ShowNtp(w)
      BY <3>3 DEF Pages!ShowNtp
    <3>4. CASE Pages!PublishRead(w) \/ Pages!PublishClear(w) \/ Pages!PublishWrite(w)
      <4>1. Handler(w.cmd).publishes
        BY <1>1, <3>4 DEF WorkerTyped, Pages!PublishRead, Pages!PublishClear, Pages!PublishWrite
      <4>2. \E at, buf : p_workers' = Pages!Moved(w, at, buf)
        BY <3>4 DEF Pages!PublishRead, Pages!PublishClear, Pages!PublishWrite
      <4> QED BY <4>1, <4>2
    <3> QED BY <3>1, <3>2, <3>3, <3>4
  <2>3. PICK v : v = [w EXCEPT !.at = at, !.buf = buf]
    OBVIOUS
  <2>4. p_workers' = (p_workers \ {w}) \cup {v}
    BY <2>2, <2>3 DEF Pages!Moved
  <2>5. v.cmd = w.cmd /\ v.value = w.value /\ v.own = w.own /\ v.at = at
    BY <2>3, MovedParts DEF PagesControl
  <2>6. ASSUME p_web.page \in Pages!Directories, v.own, Pages!FileOf(v.cmd) = Other(p_web.page), v.at = "done"
        PROVE  FALSE
    <3>1. Handler(w.cmd).from = "zero" /\ ~Handler(w.cmd).publishes
      BY <2>5, <2>6, OtherCommand DEF Disabling
    <3>2. w.cmd = "SMTP_SENDER" \/ w.cmd = "GET_NTP"
      BY <2>2, <2>5, <2>6, <3>1
    <3> QED BY <3>1, <3>2, HandlersAre DEF Pages!Setter
  <2>7. p_web.page \in Pages!Directories => Other(p_web.page) \in Pages!Directories
    BY DEF Other, Pages!Directories
  <2> QED BY <1>2, <1>3, <2>1, <2>4, <2>5, <2>6, <2>7, MovedDirectories
<1> QED BY <1>4, <1>5

\* A command that can only disable writes zeros.
LEMMA DisablingWrites ==
    ASSUME PagesControl, NEW w \in p_workers, Pages!WriteFile(w), Disabling(w),
           Pages!FileOf(w.cmd) \in Pages!Directories
    PROVE  ~Pages!Enabled(Pages!FileOf(w.cmd))'
<1> DEFINE f == Pages!FileOf(w.cmd)
<1>1. PICK content :
        /\ content = [x \in Pages!Fields[f] |-> IF x = w.cmd THEN w.value ELSE w.buf[x]]
        /\ p_files' = [p_files EXCEPT ![f] = content]
  BY DEF Pages!WriteFile
<1>2. w.buf = Pages!Filled(f, 0) /\ w.value = 0
  BY DEF Pages!WriteFile, PagesControl, PagesTypes, WorkerTyped, Disabling
<1>3. \A x \in Pages!Fields[f] : content[x] = 0
  BY <1>1, <1>2 DEF Pages!Filled
<1>4. (IF f = "ad" THEN "AD_ENABLE" ELSE "LDAP_ENABLE") \in Pages!Fields[f] /\ f \in Pages!Files
  BY FieldsAre DEF Pages!Directories
<1>5. p_files'[f] = content
  BY <1>1, <1>4 DEF PagesControl, PagesTypes
<1> QED BY <1>3, <1>4, <1>5 DEF Pages!Enabled

\* Only the command of a directory page enables its directory, and the other
\* one is disabled last.
LEMMA WriteFileDirectories ==
    ASSUME PagesControl, PagesDirectories, NEW w \in p_workers, Pages!WriteFile(w)
    PROVE  PagesDirectories'
<1> DEFINE f == Pages!FileOf(w.cmd)
           p == p_web.page
<1>1. PICK content :
        /\ p_files' = [p_files EXCEPT ![f] = content]
        /\ p_workers' = Pages!Moved(w, Pages!AfterSetter(w), content)
  BY DEF Pages!WriteFile
<1>2. UNCHANGED <<p_web, p_queue, p_broken>>
  BY DEF Pages!WriteFile
<1>3. PICK v : v = [w EXCEPT !.at = Pages!AfterSetter(w), !.buf = content]
  OBVIOUS
<1>4. p_workers' = (p_workers \ {w}) \cup {v}
  BY <1>1, <1>3 DEF Pages!Moved
<1>5. v.cmd = w.cmd /\ v.value = w.value /\ v.own = w.own
  BY <1>3, MovedParts DEF PagesControl
<1>6. w.cmd \in Cmds /\ f \in Pages!Files
  BY ThreadParts DEF PagesControl
<1>7. \A d \in Pages!Directories : d # f => (Pages!Enabled(d)' <=> Pages!Enabled(d))
  <2>1. \A d \in Pages!Directories : d # f => p_files'[d] = p_files[d]
    BY <1>1, <1>6, FieldsAre DEF PagesControl, PagesTypes, Pages!Directories
  <2> QED BY <2>1 DEF Pages!Enabled
<1>8. f \in Pages!Directories /\ Disabling(w) => ~Pages!Enabled(f)'
  BY DisablingWrites
<1>9. \A d \in Pages!Directories :
          p_broken \/ (p_web.pc # "down" /\ p \in Pages!Directories) \/ (Pages!Enabled(d)' => Pages!Enabled(d))
  <2> SUFFICES ASSUME ~p_broken, ~(p_web.pc # "down" /\ p \in Pages!Directories),
                      NEW d \in Pages!Directories, d = f
               PROVE  ~Pages!Enabled(d)'
    BY <1>7
  <2>1. CASE w.own
    <3>1. IsCurrent(w) /\ p_web.pc = "wait"
      BY <2>1 DEF PagesControl, OwnIsCurrent, IsCurrent
    <3>2. Disabling(w)
      BY <1>6, <2>1, <3>1, WhoEnables
    <3> QED BY <1>8, <3>2
  <2>2. CASE ~w.own
    BY <1>8, <2>2 DEF PagesDirectories, LeftOversDisable
  <2> QED BY <2>1, <2>2
<1>10. ASSUME p \in Pages!Directories, ~p_broken \/ p_web.quiet
       PROVE  /\ Pages!Enabled(Other(p))' => Pages!Enabled(Other(p))
              /\ v.own /\ Pages!FileOf(v.cmd) = Other(p) /\ v.at = "done" => ~Pages!Enabled(Other(p))'
  <2>1. Other(p) \in Pages!Directories
    BY DEF Other, Pages!Directories
  <2>2. CASE f = Other(p)
    <3>1. Disabling(w)
      <4>1. CASE w.own
        BY <1>10, <2>2, <4>1, OtherCommand
      <4>2. CASE ~w.own
        <5>1. ~p_broken
          BY <1>10, <4>2 DEF PagesControl, QuietIsAlone
        <5> QED BY <2>1, <2>2, <4>2, <5>1 DEF PagesDirectories, LeftOversDisable
      <4> QED BY <4>1, <4>2
    <3>2. ~Pages!Enabled(f)'
      BY <1>8, <2>1, <2>2, <3>1
    <3>3. (Other(p))' = Other(p)
      BY <1>2 DEF Other
    <3> QED BY <2>2, <3>2, <3>3 DEF Pages!Enabled
  <2>3. CASE f # Other(p)
    <3>1. PICK d \in Pages!Directories : d = Other(p)
      BY <2>1
    <3>2. Pages!Enabled(d)' <=> Pages!Enabled(d)
      BY <1>7, <2>3, <3>1
    <3>3. (Other(p))' = d
      BY <1>2, <3>1 DEF Other
    <3>4. Pages!Enabled(Other(p))' => Pages!Enabled(Other(p))
      BY <3>1, <3>2, <3>3 DEF Pages!Enabled
    <3>5. Pages!FileOf(v.cmd) # Other(p)
      BY <1>5, <2>3
    <3> QED BY <3>4, <3>5
  <2> QED BY <2>2, <2>3
<1> QED BY <1>2, <1>4, <1>5, <1>9, <1>10, MovedDirectories

\* No directory is enabled at the start.
LEMMA InitDirectories == Pages!Init => PagesDirectories
<1> SUFFICES ASSUME Pages!Init PROVE PagesDirectories
  OBVIOUS
<1>1. /\ p_web = Pages!Idle /\ p_queue = <<>> /\ p_workers = {}
      /\ p_files = [f \in Pages!Files \cup {"ntpbak"} |-> Pages!Absent]
  BY DEF Pages!Init
<1>2. "ntpShow" \notin Pages!Directories /\ "ad" \in Pages!Files
  BY FieldsAre DEF Pages!Directories
<1>3. ~Pages!Enabled("ad")
  BY <1>1, <1>2 DEF Pages!Enabled, Pages!IsRecord
<1> QED BY <1>1, <1>2, <1>3, WebResets
        DEF PagesDirectories, Pages!OneDirectory, LeftOversDisable, OtherIsDisabled

\* Every step keeps what is enabled.
LEMMA StepDirectories == PagesControl /\ PagesDirectories /\ Pages!Next => PagesDirectories'
  BY WebDirectories, FinishDirectories, WebDieDirectories, TakeDirectories, EdgeDirectories,
     AnswerDirectories, QuietDirectories, WriteFileDirectories DEF Pages!Next

-----------------------------------------------------------------------------
(* The theorems.                                                           *)

\* The invariant holds for any number of saves, of deaths of the web server
\* and of KETI-Edge, and of commands that are left from earlier pages.
THEOREM PagesInvariance == Spec => [](focus = "pages" => PagesInv)
<1>1. Init => (focus = "pages" => PagesInv)
  BY InitControl, InitFiles, InitPublished, InitDirectories DEF Init, PagesInv
<1>2. (focus = "pages" => PagesInv) /\ [Next]_pageVars => (focus = "pages" => PagesInv)'
  <2>1. UNCHANGED <<focus, pagesVars>> /\ PagesInv => PagesInv'
    <3> SUFFICES ASSUME UNCHANGED pagesVars, PagesInv PROVE PagesInv'
      OBVIOUS
    <3> USE DEF pagesVars
    <3>1. PagesControl'
      BY DEF PagesInv, PagesControl, PagesTypes, OwnIsCurrent, IsCurrent, QuietIsAlone, SavedIsLeftAlone
    <3>2. PagesFiles'
      BY DEF PagesInv, PagesFiles, Pages!SavedPageIsWhole, FilesProgress, QuietPage, Finished, Holds,
             WorkerHolds
    <3>3. PagesPublished'
      BY DEF PagesInv, PagesPublished, Pages!PublishedIsSaved, PublicationProgress, PublishingPage,
             QuietPage, Finished, IsPublished, WorkerPublishes
    <3>4. PagesDirectories'
      BY DEF PagesInv, PagesDirectories, Pages!OneDirectory, Pages!Enabled, LeftOversDisable,
             OtherIsDisabled
    <3> QED BY <3>1, <3>2, <3>3, <3>4 DEF PagesInv
  <2>2. PagesInv /\ Pages!Next => PagesInv'
    BY StepControl, StepFiles, StepPublished, StepDirectories DEF PagesInv
  <2> QED
    BY <2>1, <2>2 DEF Next, pageVars
<1> QED
  BY <1>1, <1>2, PTL DEF Spec, pageVars

\* Whatever dies in between: a page that was answered with no command of a
\* dead web server about has left all its fields in its file, until a page or
\* the display of NTP changes that file.
THEOREM SavedPagesAreWhole == Spec => []SavedPageIsWhole
<1>1. PagesInv => Pages!SavedPageIsWhole
  BY DEF PagesInv, PagesFiles
<1> QED
  BY <1>1, PagesInvariance, PTL DEF SavedPageIsWhole

\* So has the file that the mail client, the directory client or RADIUS reads.
THEOREM PublishedPagesAreSaved == Spec => []PublishedIsSaved
<1>1. PagesInv => Pages!PublishedIsSaved
  BY DEF PagesInv, PagesPublished
<1> QED
  BY <1>1, PagesInvariance, PTL DEF PublishedIsSaved

\* Active Directory and LDAP are not enabled both, but while one of their pages
\* is saved or after one was broken off.
THEOREM DirectoriesExclude == Spec => []OneDirectory
<1>1. PagesInv => Pages!OneDirectory
  BY DEF PagesInv, PagesDirectories
<1> QED
  BY <1>1, PagesInvariance, PTL DEF OneDirectory
=============================================================================
