---------------------------- MODULE RedfishProofs ----------------------------
(***************************************************************************)
(* Proofs about the Redfish server as MCComponents runs it. First the      *)
(* members of a record, for any number of PATCH requests and starts: what  *)
(* is saved is what is restored, class by class, and a refused request     *)
(* leaves nothing. Then the record store, for any number of starts,        *)
(* removals and kills, and for all interfaces, disks and users: what was   *)
(* written is read again. Last the tree of its records, and what a start   *)
(* makes of it that finds every file: nothing comes back that was removed, *)
(* and the objects are connected as the first start connected them.        *)
(***************************************************************************)
EXTENDS MCComponents, SequenceTheorems, WellFoundedInduction, TLAPS

-----------------------------------------------------------------------------
(* The classes: what is saved, restored and patched.                       *)

\* The classes whose get_json leaves a member out, or whose load_json does.
Lossy ==
    {"MessageRegistry", "LogService", "Certificate", "NetworkProtocol", "EthernetInterfaces",
     "Manager", "Session", "PowerControl", "SimpleStorage", "Drive", "Systems"}

\* The other classes restore every member.
LEMMA OthersAreWhole ==
    ASSUME NEW k \in Fields!Kinds \ Lossy
    PROVE  /\ Fields!get_json[k] = Fields!Members[k]
           /\ Fields!load_json[k] = Fields!Members[k]
  BY DEF Lossy, Fields!Kinds, Fields!Members, Fields!get_json, Fields!load_json,
     Fields!Role_get_json, Fields!Account_get_json, Fields!AccountService_get_json,
     Fields!LogEntry_get_json, Fields!EventDestination_get_json, Fields!EventService_get_json,
     Fields!SoftwareInventory_get_json, Fields!UpdateService_get_json,
     Fields!CertificateLocation_get_json, Fields!CertificateService_get_json,
     Fields!Radius_get_json, Fields!Task_get_json, Fields!TaskService_get_json,
     Fields!SessionService_get_json, Fields!Temperature_get_json, Fields!Sensor_get_json,
     Fields!Fan_get_json, Fields!Thermal_get_json, Fields!Voltage_get_json,
     Fields!PowerSupply_get_json, Fields!Power_get_json, Fields!Bios_get_json,
     Fields!StorageControllers_get_json, Fields!Storage_get_json, Fields!Volume_get_json,
     Fields!Processors_get_json, Fields!Memory_get_json, Fields!Chassis_get_json,
     Fields!VirtualMedia_get_json, Fields!Role_load_json, Fields!Account_load_json,
     Fields!AccountService_load_json, Fields!LogEntry_load_json, Fields!EventDestination_load_json,
     Fields!EventService_load_json, Fields!SoftwareInventory_load_json,
     Fields!UpdateService_load_json, Fields!CertificateLocation_load_json,
     Fields!CertificateService_load_json, Fields!Radius_load_json, Fields!Task_load_json,
     Fields!TaskService_load_json, Fields!SessionService_load_json, Fields!Temperature_load_json,
     Fields!Sensor_load_json, Fields!Fan_load_json, Fields!Thermal_load_json,
     Fields!Voltage_load_json, Fields!PowerSupply_load_json, Fields!Power_load_json,
     Fields!Bios_load_json, Fields!StorageControllers_load_json, Fields!Storage_load_json,
     Fields!Volume_load_json, Fields!Processors_load_json, Fields!Memory_load_json,
     Fields!Chassis_load_json, Fields!VirtualMedia_load_json

\* The lossy classes restore every member that is not forgotten; the message
\* registry is not restored at all.
LEMMA LossyForget ==
    ASSUME f_kind \in Lossy
    PROVE  /\ Fields!load_json[f_kind] \subseteq Fields!get_json[f_kind]
           /\ Fields!get_json[f_kind] \subseteq Fields!Members[f_kind]
           /\ f_kind # "MessageRegistry" =>
                 Fields!Members[f_kind] \ Fields!load_json[f_kind] \subseteq Fields!Forgotten
  BY DEF Lossy, Fields!Members, Fields!get_json, Fields!load_json, Fields!Forgotten,
     Fields!MessageRegistry_get_json, Fields!LogService_get_json, Fields!Certificate_get_json,
     Fields!NetworkProtocol_get_json, Fields!EthernetInterfaces_get_json, Fields!Manager_get_json,
     Fields!Session_get_json, Fields!PowerControl_get_json, Fields!SimpleStorage_get_json,
     Fields!Drive_get_json, Fields!Systems_get_json, Fields!MessageRegistry_load_json,
     Fields!LogService_load_json, Fields!Certificate_load_json, Fields!NetworkProtocol_load_json,
     Fields!EthernetInterfaces_load_json, Fields!Manager_load_json, Fields!Session_load_json,
     Fields!PowerControl_load_json, Fields!SimpleStorage_load_json, Fields!Drive_load_json,
     Fields!Systems_load_json

\* The handlers of PATCH, and the kinds whose handler may refuse a value after
\* it has changed a member.
Careful == {"Account", "Role", "AccountService", "SessionService", "Manager", "Fan",
            "PowerControl", "EventService", "EventDestination"}
Late == {"NetworkProtocol", "EthernetInterfaces"}

Patched(k) == {Fields!treat_patch[k].keys[i] : i \in DOMAIN Fields!treat_patch[k].keys}

\* There is a handler for those, for systems and for chassis.
LEMMA PatchedKinds == DOMAIN Fields!treat_patch = Careful \cup Late \cup {"Systems", "Chassis"}
  BY DEF Careful, Late, Fields!treat_patch, Fields!treat_patch_services, Fields!treat_patch_machine

\* A PATCH looks for members of its record only, and these are restored or
\* forgotten.
LEMMA PatchesOwnMembers ==
    ASSUME f_kind \in DOMAIN Fields!treat_patch, NEW m \in Patched(f_kind)
    PROVE  m \in Fields!Members[f_kind] /\ m \in Fields!load_json[f_kind] \cup Fields!Forgotten
<1>1. m \in Fields!Members[f_kind]
  <2> USE DEF Patched, Fields!treat_patch, Fields!Keys, Fields!Resource, Fields!Members
  <2>1. CASE f_kind = "Account"
    BY <2>1 DEF Fields!treat_patch_services, Fields!modify_account, Fields!Account
  <2>2. CASE f_kind = "Role"
    BY <2>2 DEF Fields!treat_patch_services, Fields!modify_role, Fields!Role
  <2>3. CASE f_kind = "AccountService"
    BY <2>3 DEF Fields!treat_patch_services, Fields!patch_account_service, Fields!AccountService
  <2>4. CASE f_kind = "SessionService"
    BY <2>4 DEF Fields!treat_patch_services, Fields!patch_session_service, Fields!SessionService
  <2>5. CASE f_kind = "Manager"
    BY <2>5 DEF Fields!treat_patch_services, Fields!patch_manager, Fields!Manager
  <2>6. CASE f_kind = "NetworkProtocol"
    BY <2>6 DEF Fields!treat_patch_services, Fields!patch_network_protocol, Fields!NetworkProtocol
  <2>7. CASE f_kind = "Fan"
    BY <2>7 DEF Fields!treat_patch_services, Fields!patch_fan_mode, Fields!Fan
  <2>8. CASE f_kind = "EthernetInterfaces"
    BY <2>8 DEF Fields!treat_patch_services, Fields!patch_ethernet_interface, Fields!EthernetInterfaces
  <2>9. CASE f_kind = "Systems"
    BY <2>9 DEF Fields!treat_patch_services, Fields!treat_patch_machine, Fields!patch_system, Fields!Systems
  <2>10. CASE f_kind = "Chassis"
    BY <2>10 DEF Fields!treat_patch_services, Fields!treat_patch_machine, Fields!patch_chassis, Fields!Chassis
  <2>11. CASE f_kind = "PowerControl"
    BY <2>11 DEF Fields!treat_patch_services, Fields!treat_patch_machine,
       Fields!patch_power_control, Fields!PowerControl
  <2>12. CASE f_kind = "EventService"
    BY <2>12 DEF Fields!treat_patch_services, Fields!treat_patch_machine,
       Fields!patch_event_service, Fields!EventService
  <2>13. CASE f_kind = "EventDestination"
    BY <2>13 DEF Fields!treat_patch_services, Fields!treat_patch_machine,
       Fields!patch_subscription, Fields!EventDestination
  <2> QED
    BY <2>1, <2>2, <2>3, <2>4, <2>5, <2>6, <2>7, <2>8, <2>9, <2>10, <2>11, <2>12, <2>13,
       PatchedKinds DEF Careful, Late
<1>2. f_kind \in Fields!Kinds /\ f_kind # "MessageRegistry"
  BY PatchedKinds DEF Careful, Late, Fields!Kinds, Fields!Members
<1> QED
  BY <1>1, <1>2, OthersAreWhole, LossyForget

\* The keys of a request are keys of the handler.
LEMMA BodiesArePatched ==
    ASSUME NEW body \in Fields!Bodies
    PROVE  body \subseteq Patched(f_kind)
  BY DEF Fields!Bodies, Fields!Range, Patched

\* A refused PATCH has changed nothing, but in the two handlers that go on to a
\* value they may refuse.
LEMMA OnlyLateKeep ==
    ASSUME f_kind \in DOMAIN Fields!treat_patch,
           NEW body \in Fields!Bodies, NEW bad \in body \cap Fields!treat_patch[f_kind].refusable,
           NEW m \in Fields!AppliedBefore(body, bad)
    PROVE  f_kind \in Late
<1> DEFINE keys == Fields!treat_patch[f_kind].keys
<1>1. \A x \in body : Fields!Position(x) \in DOMAIN keys /\ keys[Fields!Position(x)] = x
  BY BodiesArePatched DEF Patched, Fields!Position
<1>2. CASE f_kind \in Careful
  BY <1>2 DEF Careful, Fields!treat_patch, Fields!treat_patch_services, Fields!treat_patch_machine,
     Fields!Keys, Fields!modify_account, Fields!modify_role, Fields!patch_account_service,
     Fields!patch_session_service, Fields!patch_manager, Fields!patch_fan_mode,
     Fields!patch_power_control, Fields!patch_event_service, Fields!patch_subscription
<1>3. CASE f_kind \in {"Systems", "Chassis"}
  <2>1. /\ bad = "IndicatorLED" /\ "NTPServers" \notin Patched(f_kind)
        /\ DOMAIN keys \subseteq 1 .. 5 /\ \A i \in DOMAIN keys : keys[i] = "IndicatorLED" => i = 1
    BY <1>3, SMTT(30) DEF Patched, Fields!treat_patch, Fields!treat_patch_services,
       Fields!treat_patch_machine,
       Fields!Keys, Fields!patch_system, Fields!patch_chassis
  <2>2. Fields!Position(bad) = 1
    BY <2>1, <1>1
  <2>3. \A x \in body : ~(Fields!Position(x) < 1)
    BY <2>1, <1>1
  <2>4. body \cap {"NTPServers"} = {}
    BY <2>1, BodiesArePatched
  <2> QED
    BY <2>2, <2>3, <2>4, <1>3 DEF Fields!AppliedBefore
<1> QED
  BY <1>2, <1>3, PatchedKinds

-----------------------------------------------------------------------------
(* The inductive invariant of a record.                                    *)

\* What an answered PATCH may have become.
Served == {"new", "refused"}

\* What the variables hold.
FieldsTypes ==
    /\ f_kind \in Fields!Kinds
    /\ f_pc \in {"up", "saving", "down"}
    /\ f_starts \in Nat

\* What answered requests set is in memory and in the file, and what they set is
\* restored or forgotten.
AskedIsServed ==
    \A m \in f_asked \ Fields!Forgotten :
        /\ f_kind # "MessageRegistry"
        /\ m \in Fields!load_json[f_kind]
        /\ f_pc # "down" => f_mem[m] \in Served
        /\ f_pc # "saving" => f_file[m] \in Served

\* Only the members of the two late handlers have values of refused requests.
Refusable(m) == f_kind \in Late /\ m \in Patched(f_kind)

OnlyLateAreRefused ==
    /\ \A m \in Fields!Members[f_kind] : f_mem[m] = "refused" => Refusable(m)
    /\ \A m \in Fields!get_json[f_kind] : f_file[m] = "refused" => Refusable(m)

\* Only what is forgotten has the value of the constructor.
OnlyForgottenAreDefault ==
    /\ \A m \in Fields!Members[f_kind] : f_mem[m] = "default" => m \in Fields!Forgotten
    /\ \A m \in Fields!get_json[f_kind] : f_file[m] = "default" => m \in Fields!Forgotten

FieldsInv == FieldsTypes /\ AskedIsServed /\ OnlyLateAreRefused /\ OnlyForgottenAreDefault

\* The first start gives every member its value.
LEMMA FieldsInitInv == Fields!Init => FieldsInv
<1> SUFFICES ASSUME Fields!Init PROVE FieldsInv
  OBVIOUS
<1>1. Fields!get_json[f_kind] \subseteq Fields!Members[f_kind]
  BY OthersAreWhole, LossyForget DEF Fields!Init
<1> QED
  BY <1>1 DEF Fields!Init, Fields!Saved, FieldsInv, FieldsTypes, AskedIsServed, OnlyLateAreRefused,
     OnlyForgottenAreDefault

\* Every step of the record keeps the invariant.
LEMMA FieldsStepsKeepInv == FieldsInv /\ Fields!Next => FieldsInv'
<1> SUFFICES ASSUME FieldsInv, Fields!Next PROVE FieldsInv'
  OBVIOUS
<1> USE DEF FieldsInv
<1>1. /\ Fields!load_json[f_kind] \subseteq Fields!get_json[f_kind]
      /\ Fields!get_json[f_kind] \subseteq Fields!Members[f_kind]
      /\ f_kind # "MessageRegistry" =>
            Fields!Members[f_kind] \ Fields!load_json[f_kind] \subseteq Fields!Forgotten
  BY OthersAreWhole, LossyForget DEF FieldsTypes
<1>2. f_kind' = f_kind /\ Fields!Forgotten' = Fields!Forgotten
  BY DEF Fields!Next, Fields!Patch, Fields!RefusedPatch, Fields!Save, Fields!Kill, Fields!Start,
     Fields!Forgotten
<1>3. CASE Fields!Patch
  <2>1. PICK body \in Fields!Bodies :
           /\ f_mem' = [m \in Fields!Members[f_kind] |-> IF m \in body THEN "new" ELSE f_mem[m]]
           /\ f_asked' = f_asked \cup body
    BY <1>3 DEF Fields!Patch
  <2>2. \A m \in body \ Fields!Forgotten : m \in Fields!load_json[f_kind]
    BY <1>3, BodiesArePatched, PatchesOwnMembers DEF Fields!Patch, Fields!Patchable
  <2>3. f_kind # "MessageRegistry"
    BY <1>3, PatchedKinds DEF Fields!Patch, Fields!Patchable, Careful, Late
  <2>4. f_pc = "up" /\ f_pc' = "saving" /\ UNCHANGED <<f_kind, f_file, f_starts>>
    BY <1>3 DEF Fields!Patch, Fields!Patchable
  <2>5. AskedIsServed'
    BY <1>1, <1>2, <2>1, <2>2, <2>3, <2>4 DEF AskedIsServed, Served
  <2>6. OnlyLateAreRefused' /\ OnlyForgottenAreDefault'
    BY <1>1, <1>2, <2>1, <2>4 DEF OnlyLateAreRefused, OnlyForgottenAreDefault, Refusable
  <2> QED
    BY <2>4, <2>5, <2>6 DEF FieldsTypes
<1>4. CASE Fields!RefusedPatch
  <2>1. f_pc = "up" /\ f_kind \in DOMAIN Fields!treat_patch
        /\ UNCHANGED <<f_kind, f_pc, f_file, f_asked, f_starts>>
    BY <1>4 DEF Fields!RefusedPatch, Fields!Patchable
  <2>2. PICK body \in Fields!Bodies : \E bad \in body \cap Fields!treat_patch[f_kind].refusable :
           \E applied \in {{m \in body : Fields!Position(m) < Fields!Position(bad)},
                           Fields!AppliedBefore(body, bad)} :
              f_mem' = [m \in Fields!Members[f_kind] |-> IF m \in applied THEN "refused" ELSE f_mem[m]]
    BY <1>4 DEF Fields!RefusedPatch
  <2>3. PICK bad \in body \cap Fields!treat_patch[f_kind].refusable :
           \E applied \in {{m \in body : Fields!Position(m) < Fields!Position(bad)},
                           Fields!AppliedBefore(body, bad)} :
              f_mem' = [m \in Fields!Members[f_kind] |-> IF m \in applied THEN "refused" ELSE f_mem[m]]
    BY <2>2
  <2>4. PICK applied \in {{m \in body : Fields!Position(m) < Fields!Position(bad)},
                          Fields!AppliedBefore(body, bad)} :
           f_mem' = [m \in Fields!Members[f_kind] |-> IF m \in applied THEN "refused" ELSE f_mem[m]]
    BY <2>3
  <2>5. applied \subseteq Fields!AppliedBefore(body, bad) /\ applied \subseteq body
    BY <2>4 DEF Fields!AppliedBefore
  <2>6. \A m \in applied : Refusable(m)
    BY <2>1, <2>5, OnlyLateKeep, BodiesArePatched DEF Refusable
  <2>7. AskedIsServed'
    BY <1>1, <1>2, <2>1, <2>4 DEF AskedIsServed, Served
  <2>8. OnlyLateAreRefused' /\ OnlyForgottenAreDefault'
    BY <1>1, <1>2, <2>1, <2>4, <2>6 DEF OnlyLateAreRefused, OnlyForgottenAreDefault, Refusable
  <2> QED
    BY <2>1, <2>7, <2>8 DEF FieldsTypes
<1>5. CASE Fields!Save
  BY <1>1, <1>2, <1>5 DEF Fields!Save, Fields!Saved, FieldsTypes, AskedIsServed, OnlyLateAreRefused,
     OnlyForgottenAreDefault, Refusable
<1>6. CASE Fields!Kill
  <2>1. /\ f_pc' = "down" /\ UNCHANGED <<f_kind, f_mem, f_file, f_starts>>
        /\ \A m \in f_asked' : m \in f_asked /\ (f_pc = "saving" => f_file[m] = "new")
    BY <1>6 DEF Fields!Kill
  <2> QED
    BY <1>2, <2>1 DEF FieldsTypes, AskedIsServed, Served, OnlyLateAreRefused,
       OnlyForgottenAreDefault, Refusable
<1>7. CASE Fields!Start
  <2>1. f_pc = "down" /\ f_pc' = "up" /\ f_starts' = f_starts + 1 /\ UNCHANGED <<f_kind, f_asked>>
    BY <1>7 DEF Fields!Start
  <2>2. f_file' = [m \in Fields!get_json[f_kind] |-> f_mem'[m]]
    BY <1>7 DEF Fields!Start, Fields!Saved
  <2>3. \A m \in Fields!Members[f_kind] :
           f_mem'[m] = IF f_kind = "MessageRegistry" THEN "first"
                       ELSE IF m \in Fields!load_json[f_kind] THEN f_file[m] ELSE "default"
    BY <1>7 DEF Fields!Start
  <2>4. AskedIsServed'
    BY <1>1, <1>2, <2>1, <2>2, <2>3 DEF AskedIsServed, Served
  <2>5. OnlyLateAreRefused'
    BY <1>1, <1>2, <2>2, <2>3 DEF OnlyLateAreRefused, Refusable
  <2>6. OnlyForgottenAreDefault'
    BY <1>1, <1>2, <2>2, <2>3 DEF OnlyForgottenAreDefault
  <2> QED
    BY <1>2, <2>1, <2>4, <2>5, <2>6 DEF FieldsTypes
<1> QED
  BY <1>3, <1>4, <1>5, <1>6, <1>7 DEF Fields!Next

-----------------------------------------------------------------------------
(* The record as a component of MCComponents.                              *)

mcVars == <<focus, storeVars, fieldsVars, requestsVars, pagesVars, devicesVars, usersVars, powerVars>>

\* FieldsInv holds in every state of the component.
THEOREM FieldsInvariance == Spec => [](focus = "fields" => FieldsInv)
<1>1. Init => (focus = "fields" => FieldsInv)
  BY FieldsInitInv DEF Init
<1>2. (focus = "fields" => FieldsInv) /\ [Next]_mcVars => (focus = "fields" => FieldsInv)'
  <2>1. UNCHANGED <<focus, fieldsVars>> /\ FieldsInv => FieldsInv'
    BY DEF fieldsVars, FieldsInv, FieldsTypes, AskedIsServed, OnlyLateAreRefused, OnlyForgottenAreDefault,
       Refusable, Fields!Forgotten
  <2> QED
    BY <2>1, FieldsStepsKeepInv DEF Next, mcVars
<1> QED
  BY <1>1, <1>2, PTL DEF Spec, mcVars

\* Whatever kills, starts and other requests follow, the server goes on to serve
\* what an answered PATCH set, but for the members no start restores.
THEOREM AnsweredPatchesAreKept == Spec => []AnsweredPatchIsKept
<1>1. FieldsInv => Fields!AnsweredPatchIsKept
  BY DEF FieldsInv, AskedIsServed, Served, Fields!AnsweredPatchIsKept
<1> QED
  BY <1>1, FieldsInvariance, PTL DEF AnsweredPatchIsKept

\* Of all handlers of PATCH only those of the network protocol and of an
\* interface leave a part of a request they refuse, in memory or in the file.
THEOREM RefusedPatchesLeaveNothing == Spec => []RefusedPatchLeavesNothing
<1>1. FieldsInv => Fields!RefusedPatchLeavesNothing
  <2> SUFFICES ASSUME FieldsInv, NEW m \in Fields!Members[f_kind], f_mem[m] = "refused"
               PROVE  \/ f_kind = "EthernetInterfaces"
                         /\ m \in Fields!Range(Fields!patch_ethernet_interface.keys)
                      \/ f_kind = "NetworkProtocol"
                         /\ m \in Fields!Range(Fields!patch_network_protocol.keys)
    BY DEF Fields!RefusedPatchLeavesNothing
  <2>1. Refusable(m)
    BY DEF FieldsInv, OnlyLateAreRefused
  <2>2. /\ Fields!treat_patch["EthernetInterfaces"] = Fields!patch_ethernet_interface
        /\ Fields!treat_patch["NetworkProtocol"] = Fields!patch_network_protocol
    BY DEF Fields!treat_patch, Fields!treat_patch_services
  <2> QED
    BY <2>1, <2>2 DEF Refusable, Late, Patched, Fields!Range
<1> QED
  BY <1>1, FieldsInvariance, PTL DEF RefusedPatchLeavesNothing

\* get_json and load_json of every class agree: after any number of starts only
\* the forgotten members have lost their values.
THEOREM RestartsRestoreMembers == Spec => []OnlyForgottenIsLost
<1>1. FieldsInv => Fields!OnlyForgottenIsLost
  BY DEF FieldsInv, OnlyForgottenAreDefault, Fields!OnlyForgottenIsLost
<1> QED
  BY <1>1, FieldsInvariance, PTL DEF OnlyForgottenIsLost

-----------------------------------------------------------------------------
(* The record store: what was written is read again.                       *)

Excused == s_gone \cup s_removed

\* Whatever is neither in memory nor in a whole file was hit by a kill, or
\* removed; before anything is written there is no file at all.
StoreInv ==
    /\ s_pc \in {"down", "saving", "up", "failed"}
    /\ s_pc = "down" => s_saved \cup s_torn = {} \/ Store!AllUris \ s_saved \subseteq Excused
    /\ s_pc = "saving" => Store!AllUris \ Store!Written \subseteq Excused
    /\ s_pc = "up" => /\ Store!AllUris \ s_saved \subseteq Excused
                      /\ Store!AllUris \ s_mem \subseteq Excused

\* The first start and a start that loads files both leave the records in
\* memory that the files have.
LEMMA StartKeepsStoreInv == StoreInv /\ Store!Start => StoreInv'
<1> SUFFICES ASSUME StoreInv, Store!Start PROVE StoreInv'
  OBVIOUS
<1>1. s_pc = "down" /\ UNCHANGED <<s_saved, s_torn, s_gone, s_removed>>
  BY DEF Store!Start
<1>2. CASE Store!Scanned = {}
  <2>1. s_mem' = Store!Uris(Store!ServiceRoot({})) /\ s_pc' = "saving"
    BY <1>2 DEF Store!Start, Store!FirstTree
  <2>2. Store!AllUris \subseteq s_mem' \cup {Store!RegistryUri}
    BY <2>1 DEF Store!AllUris, Store!FullTree, Store!Uris, Store!init_message_registry
  <2> QED
    BY <2>1, <2>2 DEF StoreInv, Store!Written
<1>3. CASE Store!Scanned # {}
  <2> DEFINE read == {u \in Store!Scanned : u \in s_saved}
             made == IF <<>> \in s_saved
                     THEN {r \in Store!ServiceRoot(Store!Scanned) : r.uri \notin Store!Scanned} ELSE {}
  <2>1. \/ s_pc' = "failed"
        \/ /\ s_pc' = "saving"
           /\ \E met \in {{}, made} : s_mem' = (read \cup Store!Uris(made)) \ Store!Uris(met)
    BY <1>3 DEF Store!Start, Store!LoadJson
  <2>2. \A met \in {{}, made} : Store!Uris(met) \cap Store!Scanned = {}
    BY DEF Store!Uris
  <2>3. s_saved = read
    BY DEF Store!Scanned
  <2>4. s_pc' = "saving" => s_saved \subseteq s_mem'
    BY <2>1, <2>2, <2>3
  <2>5. Store!AllUris \ s_saved \subseteq Excused
    BY <1>1, <1>3 DEF StoreInv, Store!Scanned
  <2> QED
    BY <1>1, <2>1, <2>4, <2>5 DEF StoreInv, Store!Written, Excused
<1> QED
  BY <1>2, <1>3

\* So do the other steps: what they take from memory or from the files they
\* note as gone or removed.
LEMMA StoreStepsKeepInv == StoreInv /\ Store!Next => StoreInv'
<1> SUFFICES ASSUME StoreInv, Store!Next PROVE StoreInv'
  OBVIOUS
<1> USE DEF StoreInv, Excused
<1>1. CASE Store!Start
  BY <1>1, StartKeepsStoreInv
<1>2. CASE Store!SaveJson
  BY <1>2 DEF Store!SaveJson
<1>3. CASE Store!KillInSave
  <2>1. PICK c \in Store!Cuts :
           /\ s_saved' = (s_saved \cup (Store!Written \ c.cut)) \ c.half
           /\ s_gone' = s_gone \cup (c.cut \ s_saved) \cup c.half
    BY <1>3 DEF Store!KillInSave
  <2> QED
    BY <1>3, <2>1 DEF Store!KillInSave
<1>4. CASE Store!KillUp
  BY <1>4 DEF Store!KillUp
<1>5. CASE Store!RemoveAccount \/ Store!RemoveSubscription \/ Store!ClearLog
  <2>1. s_pc = "up" /\ \E uris, files : files \subseteq uris /\ Store!Dropped(uris, files)
    BY <1>5 DEF Store!RemoveAccount, Store!RemoveSubscription, Store!ClearLog, Store!ClearedFiles
  <2>2. PICK uris, files : files \subseteq uris /\ Store!Dropped(uris, files)
    BY <2>1
  <2> QED
    BY <2>1, <2>2 DEF Store!Dropped
<1>6. CASE Store!KillInClear
  BY <1>6 DEF Store!KillInClear
<1> QED
  BY <1>1, <1>2, <1>3, <1>4, <1>5, <1>6 DEF Store!Next

\* StoreInv holds in every state of the component.
THEOREM StoreInvariance == Spec => [](focus = "store" => StoreInv)
<1>1. Init => (focus = "store" => StoreInv)
  BY DEF Init, Store!Init, StoreInv
<1>2. (focus = "store" => StoreInv) /\ [Next]_mcVars => (focus = "store" => StoreInv)'
  <2>1. UNCHANGED <<focus, storeVars>> /\ StoreInv => StoreInv'
    BY DEF storeVars, StoreInv, Excused, Store!Written
  <2> QED
    BY <2>1, StoreStepsKeepInv DEF Next, mcVars
<1> QED
  BY <1>1, <1>2, PTL DEF Spec, mcVars

\* Whatever sequence of starts, requests and kills, in any order of loading and
\* saving: the server lacks only records a kill hit and those that were removed.
THEOREM WrittenRecordsAreKept == Spec => []OnlyUnwrittenIsLost
<1>1. StoreInv => Store!OnlyUnwrittenIsLost
  BY DEF StoreInv, Excused, Store!OnlyUnwrittenIsLost
<1> QED
  BY <1>1, StoreInvariance, PTL DEF OnlyUnwrittenIsLost

-----------------------------------------------------------------------------
(* The tree of resources: what hangs from what.                            *)

Of(kind) == <<kind, "members">>

\* The names below a record of each kind, and for each name the kind of the
\* record there and the member of the parent object it is put in.
Children ==
    [ServiceRoot |->
        [Systems |-> <<"Systems", "system">>, Chassis |-> <<"Chassis", "chassis">>,
         Managers |-> <<"Manager", "manager">>,
         UpdateService |-> <<"UpdateService", "update_service">>,
         TaskService |-> <<"TaskService", "task_service">>,
         EventService |-> <<"EventService", "event_service">>,
         CertificateService |-> <<"CertificateService", "certificate_service">>,
         AccountService |-> <<"AccountService", "account_service">>,
         SessionService |-> <<"SessionService", "session_service">>,
         MessageRegistry |-> <<"MessageRegistry", "none">>],
     Systems |->
        [Storage |-> <<"StorageCollection", "storage">>,
         Processors |-> <<"ProcessorCollection", "processor">>,
         Memory |-> <<"MemoryCollection", "memory">>,
         EthernetInterfaces |-> <<"EthernetInterfaceCollection", "ethernet">>,
         LogServices |-> <<"LogServiceCollection", "log_service">>,
         SimpleStorage |-> <<"SimpleStorageCollection", "simple_storage">>,
         Bios |-> <<"Bios", "bios">>],
     Chassis |->
        [Sensors |-> <<"SensorCollection", "sensors">>, Thermal |-> <<"Thermal", "thermal">>,
         Storage |-> <<"StorageCollection", "storage">>, Power |-> <<"Power", "power">>,
         LogServices |-> <<"LogServiceCollection", "log_service">>],
     Manager |->
        [NetworkProtocol |-> <<"NetworkProtocol", "network">>,
         EthernetInterfaces |-> <<"EthernetInterfaceCollection", "ethernet">>,
         LogServices |-> <<"LogServiceCollection", "log_service">>,
         VirtualMedia |-> <<"VirtualMediaCollection", "virtual_media">>,
         Radius |-> <<"Radius", "radius">>],
     UpdateService |->
        [FirmwareInventory |-> <<"FirmwareInventoryCollection", "firmware_inventory">>,
         SoftwareInventory |-> <<"SoftwareInventoryCollection", "software_inventory">>],
     TaskService |-> [Tasks |-> <<"TaskCollection", "task_collection">>],
     EventService |-> [Subscriptions |-> <<"EventDestinationCollection", "subscriptions">>],
     CertificateService |->
        [CertificateLocations |-> <<"CertificateLocation", "certificate_location">>],
     AccountService |->
        [Roles |-> <<"RoleCollection", "role_collection">>,
         Accounts |-> <<"AccountCollection", "account_collection">>],
     SessionService |-> [Sessions |-> <<"SessionCollection", "session_collection">>],
     Account |-> [Certificates |-> <<"CertificateCollection", "certificates">>],
     LogService |-> [Entries |-> <<"LogEntryCollection", "entry">>],
     Storage |->
        [StorageControllers |-> <<"StorageControllerList", "controller">>,
         Drives |-> <<"DriveCollection", "drives">>, Volumes |-> <<"VolumeCollection", "volumes">>],
     Thermal |->
        [Temperatures |-> <<"TemperatureList", "temperatures">>, Fans |-> <<"FanList", "fans">>],
     Power |->
        [PowerControl |-> <<"PowerControlList", "power_control">>,
         Voltages |-> <<"VoltageList", "voltages">>,
         PowerSupplies |-> <<"PowerSupplyList", "power_supplies">>],
     StorageCollection |-> [n \in {"1"} |-> Of("Storage")],
     StorageControllerList |-> [n \in Disks |-> Of("StorageControllers")],
     DriveCollection |-> [n \in {"0"} |-> Of("Drive")],
     VolumeCollection |-> [n \in {"0"} |-> Of("Volume")],
     ProcessorCollection |-> [n \in {"CPU1"} |-> Of("Processors")],
     MemoryCollection |-> [n \in {"DIMM1"} |-> Of("Memory")],
     EthernetInterfaceCollection |-> [n \in Nics |-> Of("EthernetInterfaces")],
     LogServiceCollection |-> [n \in {"Log1"} |-> Of("LogService")],
     LogEntryCollection |-> [n \in {"0"} |-> Of("LogEntry")],
     SimpleStorageCollection |-> [n \in {"0"} |-> Of("SimpleStorage")],
     SensorCollection |-> [n \in {"CabinetTemp"} |-> Of("Sensor")],
     TemperatureList |-> [n \in {"0", "1"} |-> Of("Temperature")],
     FanList |-> [n \in {"0", "1"} |-> Of("Fan")],
     PowerControlList |-> [n \in {"0"} |-> Of("PowerControl")],
     VoltageList |-> [n \in {"0"} |-> Of("Voltage")],
     PowerSupplyList |-> [n \in {"0"} |-> Of("PowerSupply")],
     FirmwareInventoryCollection |-> [n \in {"CMM", "WEB", "HA"} |-> Of("SoftwareInventory")],
     EventDestinationCollection |-> [n \in {"1"} |-> Of("EventDestination")],
     RoleCollection |-> [n \in {"Administrator", "Operator", "ReadOnly"} |-> Of("Role")],
     AccountCollection |-> [n \in Users |-> Of("Account")]]

\* A record of kind k has a child of that kind, in that field, under that name.
Under(k, name, kind, field) ==
    /\ k \in DOMAIN Children /\ name \in DOMAIN Children[k]
    /\ Children[k][name] = <<kind, field>>

Names == UNION {DOMAIN Children[k] : k \in DOMAIN Children}

\* r is the child of the record of kind k at p.
HangsFrom(r, p, k) == \E name, kind, field :
    Under(k, name, kind, field) /\ r = [uri |-> Append(p, name), kind |-> kind, field |-> field]

\* Every record of recs hangs from another one, or from that at p.
Grows(recs, p, k) == \A r \in recs :
    /\ r.uri \in Seq(Names)
    /\ HangsFrom(r, p, k) \/ \E q \in recs : HangsFrom(r, q.uri, q.kind)

\* What grows from one record grows together.
LEMMA GrowsUnion ==
    ASSUME NEW p, NEW k, NEW S, NEW T, Grows(S, p, k), Grows(T, p, k)
    PROVE  Grows(S \cup T, p, k)
BY Zenon DEF Grows

\* In unions of many sets.
LEMMA GrowsUnions ==
    ASSUME NEW p, NEW k, NEW SS, \A S \in SS : Grows(S, p, k)
    PROVE  Grows(UNION SS, p, k)
BY Zenon DEF Grows

\* No record hangs from nothing.
LEMMA GrowsEmpty == ASSUME NEW p, NEW k PROVE Grows({}, p, k)
BY Zenon DEF Grows

\* The path to a child is a path.
LEMMA ChildPath ==
    ASSUME NEW p \in Seq(Names), NEW k, NEW name, NEW kind, NEW field, Under(k, name, kind, field)
    PROVE  Append(p, name) \in Seq(Names)
<1>1. name \in Names
  BY Zenon DEF Under, Names
<1> QED
  BY <1>1

\* A record and what grows from it grow from its parent.
LEMMA RecGrows ==
    ASSUME NEW p \in Seq(Names), NEW k, NEW name, NEW kind, NEW field, Under(k, name, kind, field),
           NEW below, Grows(below, Append(p, name), kind)
    PROVE  /\ Grows(Store!Rec(p, name, kind, field) \cup below, p, k)
           /\ Grows(Store!Missing({}, p, name, kind, field, below), p, k)
<1> DEFINE r == [uri |-> Append(p, name), kind |-> kind, field |-> field]
<1>1. r.uri = Append(p, name) /\ r.kind = kind /\ Append(p, name) \in Seq(Names)
  BY ChildPath
<1>2. HangsFrom(r, p, k)
  BY Zenon DEF HangsFrom
<1> HIDE DEF r
<1>3. ASSUME NEW s \in {r} \cup below
      PROVE  /\ s.uri \in Seq(Names)
             /\ HangsFrom(s, p, k) \/ \E q \in {r} \cup below : HangsFrom(s, q.uri, q.kind)
  <2>1. CASE s = r
    BY <1>1, <1>2, <2>1, Zenon
  <2>2. CASE s \in below
    BY <1>1, <2>2, Zenon DEF Grows
  <2> QED
    BY <2>1, <2>2
<1>4. Grows({r} \cup below, p, k)
  BY <1>3, Zenon DEF Grows
<1>5. Store!Rec(p, name, kind, field) = {r}
  BY DEF Store!Rec, r
<1>6. Store!Missing({}, p, name, kind, field, below) = {r} \cup below
  BY <1>5 DEF Store!Missing
<1> QED
  BY <1>4, <1>5, <1>6

\* A record with nothing below it.
LEMMA LeafGrows ==
    ASSUME NEW p \in Seq(Names), NEW k, NEW name, NEW kind, NEW field, Under(k, name, kind, field)
    PROVE  /\ Grows(Store!Rec(p, name, kind, field), p, k)
           /\ Grows(Store!Missing({}, p, name, kind, field, {}), p, k)
           /\ field = "members" => Grows(Store!Member(p, name, kind), p, k)
<1>1. Grows({}, Append(p, name), kind)
  BY GrowsEmpty
<1>2. Store!Rec(p, name, kind, field) \cup {} = Store!Rec(p, name, kind, field)
  OBVIOUS
<1> QED
  BY <1>1, <1>2, RecGrows DEF Store!Member

-----------------------------------------------------------------------------
\* What init_storage makes grows from the storage.
LEMMA StorageGrows ==
    ASSUME NEW s \in Seq(Names)
    PROVE  Grows(Store!init_storage({}, s), s, "Storage")
<1>1. /\ Under("Storage", "StorageControllers", "StorageControllerList", "controller")
      /\ Under("Storage", "Drives", "DriveCollection", "drives")
      /\ Under("Storage", "Volumes", "VolumeCollection", "volumes")
  BY DEF Under, Children
<1>2. /\ \A d \in Disks : Under("StorageControllerList", d, "StorageControllers", "members")
      /\ Under("DriveCollection", "0", "Drive", "members")
      /\ Under("VolumeCollection", "0", "Volume", "members")
  BY DEF Under, Children, Of
<1>3. /\ Append(s, "StorageControllers") \in Seq(Names)
      /\ Append(s, "Drives") \in Seq(Names)
      /\ Append(s, "Volumes") \in Seq(Names)
  BY <1>1, ChildPath
<1>4. ASSUME NEW d \in Disks
      PROVE  Grows(Store!init_storage_controller(Append(s, "StorageControllers"), d),
                   Append(s, "StorageControllers"), "StorageControllerList")
  BY <1>2, <1>3, LeafGrows DEF Store!init_storage_controller
<1>5. Grows(UNION {Store!init_storage_controller(Append(s, "StorageControllers"), d) : d \in Disks},
            Append(s, "StorageControllers"), "StorageControllerList")
  BY <1>4, GrowsUnions
<1>6. /\ Grows(Store!init_drive(Append(s, "Drives"), "0"), Append(s, "Drives"), "DriveCollection")
      /\ Grows(Store!init_volume(Append(s, "Volumes"), "0"), Append(s, "Volumes"), "VolumeCollection")
  BY <1>2, <1>3, LeafGrows DEF Store!init_drive, Store!init_volume
<1> QED
  BY <1>1, <1>5, <1>6, RecGrows, GrowsUnion DEF Store!init_storage

\* What init_storage_collection makes.
LEMMA StorageCollectionGrows ==
    ASSUME NEW p \in Seq(Names)
    PROVE  Grows(Store!init_storage_collection({}, p, "1"), p, "StorageCollection")
<1>1. Under("StorageCollection", "1", "Storage", "members")
  BY DEF Under, Children, Of
<1>2. Grows(Store!init_storage({}, Append(p, "1")), Append(p, "1"), "Storage")
  BY <1>1, ChildPath, StorageGrows
<1> QED
  BY <1>1, <1>2, RecGrows DEF Store!init_storage_collection, Store!Member

\* The path that is built from two names at once.
LEMMA TwoNames ==
    ASSUME NEW p \in Seq(Names), NEW a \in Names, NEW b \in Names
    PROVE  p \o <<a, b>> = Append(Append(p, a), b)
OBVIOUS

\* What init_log_service makes.
LEMMA LogServiceGrows ==
    ASSUME NEW p \in Seq(Names)
    PROVE  Grows(Store!init_log_service({}, p, "Log1"), p, "LogServiceCollection")
<1>1. /\ Under("LogServiceCollection", "Log1", "LogService", "members")
      /\ Under("LogService", "Entries", "LogEntryCollection", "entry")
      /\ Under("LogEntryCollection", "0", "LogEntry", "members")
  BY DEF Under, Children, Of
<1>2. Append(p, "Log1") \in Seq(Names) /\ Append(Append(p, "Log1"), "Entries") \in Seq(Names)
  BY <1>1, ChildPath
<1>3. "Log1" \in Names /\ "Entries" \in Names
  BY <1>1, Zenon DEF Under, Names
<1>4. p \o <<"Log1", "Entries">> = Append(Append(p, "Log1"), "Entries")
  BY <1>3, TwoNames
<1>5. Grows(Store!init_log_entry(Append(Append(p, "Log1"), "Entries"), "0"),
            Append(Append(p, "Log1"), "Entries"), "LogEntryCollection")
  BY <1>1, <1>2, LeafGrows DEF Store!init_log_entry
<1>6. Grows(Store!Missing({}, Append(p, "Log1"), "Entries", "LogEntryCollection", "entry",
                          Store!init_log_entry(Append(Append(p, "Log1"), "Entries"), "0")),
            Append(p, "Log1"), "LogService")
  BY <1>1, <1>2, <1>5, RecGrows
<1> QED
  BY <1>1, <1>4, <1>6, RecGrows DEF Store!init_log_service, Store!Member

\* The Ethernet interfaces.
LEMMA EthernetsGrow ==
    ASSUME NEW p \in Seq(Names)
    PROVE  Grows(UNION {Store!init_ethernet(p, n) : n \in Nics}, p, "EthernetInterfaceCollection")
<1>1. \A n \in Nics : Under("EthernetInterfaceCollection", n, "EthernetInterfaces", "members")
  BY DEF Under, Children, Of
<1>2. \A n \in Nics : Grows(Store!init_ethernet(p, n), p, "EthernetInterfaceCollection")
  BY <1>1, LeafGrows DEF Store!init_ethernet
<1> QED
  BY <1>2, GrowsUnions

\* What init_system makes.
LEMMA SystemGrows ==
    ASSUME NEW s \in Seq(Names)
    PROVE  Grows(Store!init_system({}, s), s, "Systems")
<1>1. /\ Under("Systems", "Storage", "StorageCollection", "storage")
      /\ Under("Systems", "Processors", "ProcessorCollection", "processor")
      /\ Under("Systems", "Memory", "MemoryCollection", "memory")
      /\ Under("Systems", "EthernetInterfaces", "EthernetInterfaceCollection", "ethernet")
      /\ Under("Systems", "LogServices", "LogServiceCollection", "log_service")
      /\ Under("Systems", "SimpleStorage", "SimpleStorageCollection", "simple_storage")
      /\ Under("Systems", "Bios", "Bios", "bios")
  BY DEF Under, Children
<1>2. /\ Under("ProcessorCollection", "CPU1", "Processors", "members")
      /\ Under("MemoryCollection", "DIMM1", "Memory", "members")
      /\ Under("SimpleStorageCollection", "0", "SimpleStorage", "members")
  BY DEF Under, Children, Of
<1>3. /\ Append(s, "Storage") \in Seq(Names) /\ Append(s, "Processors") \in Seq(Names)
      /\ Append(s, "Memory") \in Seq(Names) /\ Append(s, "EthernetInterfaces") \in Seq(Names)
      /\ Append(s, "LogServices") \in Seq(Names) /\ Append(s, "SimpleStorage") \in Seq(Names)
  BY <1>1, ChildPath
<1>4. Grows(Store!Missing({}, s, "Storage", "StorageCollection", "storage",
                          Store!init_storage_collection({}, Append(s, "Storage"), "1")), s, "Systems")
  BY <1>1, <1>3, StorageCollectionGrows, RecGrows
<1>5. Grows(Store!Missing({}, s, "Processors", "ProcessorCollection", "processor",
                          Store!init_processor(Append(s, "Processors"), "CPU1")), s, "Systems")
  BY <1>1, <1>2, <1>3, LeafGrows, RecGrows DEF Store!init_processor
<1>6. Grows(Store!Missing({}, s, "Memory", "MemoryCollection", "memory",
                          Store!init_memory(Append(s, "Memory"), "DIMM1")), s, "Systems")
  BY <1>1, <1>2, <1>3, LeafGrows, RecGrows DEF Store!init_memory
<1>7. Grows(Store!Missing({}, s, "EthernetInterfaces", "EthernetInterfaceCollection", "ethernet",
                          UNION {Store!init_ethernet(Append(s, "EthernetInterfaces"), n) : n \in Nics}),
            s, "Systems")
  BY <1>1, <1>3, EthernetsGrow, RecGrows
<1>8. Grows(Store!Missing({}, s, "LogServices", "LogServiceCollection", "log_service",
                          Store!init_log_service({}, Append(s, "LogServices"), "Log1")), s, "Systems")
  BY <1>1, <1>3, LogServiceGrows, RecGrows
<1>9. Grows(Store!Missing({}, s, "SimpleStorage", "SimpleStorageCollection", "simple_storage",
                          Store!init_simple_storage(Append(s, "SimpleStorage"), "0")), s, "Systems")
  BY <1>1, <1>2, <1>3, LeafGrows, RecGrows DEF Store!init_simple_storage
<1>10. Grows(Store!Missing({}, s, "Bios", "Bios", "bios", {}), s, "Systems")
  BY <1>1, LeafGrows
<1> QED
  BY <1>4, <1>5, <1>6, <1>7, <1>8, <1>9, <1>10, GrowsUnion DEF Store!init_system

\* What init_thermal makes.
LEMMA ThermalGrows ==
    ASSUME NEW t \in Seq(Names)
    PROVE  Grows(Store!init_thermal({}, t), t, "Thermal")
<1>1. /\ Under("Thermal", "Temperatures", "TemperatureList", "temperatures")
      /\ Under("Thermal", "Fans", "FanList", "fans")
  BY DEF Under, Children
<1>2. \A id \in {"0", "1"} : /\ Under("TemperatureList", id, "Temperature", "members")
                             /\ Under("FanList", id, "Fan", "members")
  BY DEF Under, Children, Of
<1>3. Append(t, "Temperatures") \in Seq(Names) /\ Append(t, "Fans") \in Seq(Names)
  BY <1>1, ChildPath
<1>4. \A id \in {"0", "1"} :
         /\ Grows(Store!init_temperature(Append(t, "Temperatures"), id),
                  Append(t, "Temperatures"), "TemperatureList")
         /\ Grows(Store!init_fan(Append(t, "Fans"), id), Append(t, "Fans"), "FanList")
  BY <1>2, <1>3, LeafGrows DEF Store!init_temperature, Store!init_fan
<1>5. /\ Grows(UNION {Store!init_temperature(Append(t, "Temperatures"), id) : id \in {"0", "1"}},
               Append(t, "Temperatures"), "TemperatureList")
      /\ Grows(UNION {Store!init_fan(Append(t, "Fans"), id) : id \in {"0", "1"}},
               Append(t, "Fans"), "FanList")
  BY <1>4, GrowsUnions
<1> QED
  BY <1>1, <1>5, RecGrows, GrowsUnion DEF Store!init_thermal

\* What init_power makes.
LEMMA PowerGrows ==
    ASSUME NEW p \in Seq(Names)
    PROVE  Grows(Store!init_power({}, p), p, "Power")
<1>1. /\ Under("Power", "PowerControl", "PowerControlList", "power_control")
      /\ Under("Power", "Voltages", "VoltageList", "voltages")
      /\ Under("Power", "PowerSupplies", "PowerSupplyList", "power_supplies")
  BY DEF Under, Children
<1>2. /\ Under("PowerControlList", "0", "PowerControl", "members")
      /\ Under("VoltageList", "0", "Voltage", "members")
      /\ Under("PowerSupplyList", "0", "PowerSupply", "members")
  BY DEF Under, Children, Of
<1>3. /\ Append(p, "PowerControl") \in Seq(Names) /\ Append(p, "Voltages") \in Seq(Names)
      /\ Append(p, "PowerSupplies") \in Seq(Names)
  BY <1>1, ChildPath
<1>4. /\ Grows(Store!init_power_control(Append(p, "PowerControl"), "0"),
               Append(p, "PowerControl"), "PowerControlList")
      /\ Grows(Store!init_voltage(Append(p, "Voltages"), "0"), Append(p, "Voltages"), "VoltageList")
      /\ Grows(Store!init_power_supply(Append(p, "PowerSupplies"), "0"),
               Append(p, "PowerSupplies"), "PowerSupplyList")
  BY <1>2, <1>3, LeafGrows DEF Store!init_power_control, Store!init_voltage, Store!init_power_supply
<1> QED
  BY <1>1, <1>4, RecGrows, GrowsUnion DEF Store!init_power

\* What init_chassis makes.
LEMMA ChassisGrows ==
    ASSUME NEW c \in Seq(Names)
    PROVE  Grows(Store!init_chassis({}, c), c, "Chassis")
<1>1. /\ Under("Chassis", "Sensors", "SensorCollection", "sensors")
      /\ Under("Chassis", "Thermal", "Thermal", "thermal")
      /\ Under("Chassis", "Storage", "StorageCollection", "storage")
      /\ Under("Chassis", "Power", "Power", "power")
      /\ Under("Chassis", "LogServices", "LogServiceCollection", "log_service")
  BY DEF Under, Children
<1>2. Under("SensorCollection", "CabinetTemp", "Sensor", "members")
  BY DEF Under, Children, Of
<1>3. /\ Append(c, "Sensors") \in Seq(Names) /\ Append(c, "Thermal") \in Seq(Names)
      /\ Append(c, "Storage") \in Seq(Names) /\ Append(c, "Power") \in Seq(Names)
      /\ Append(c, "LogServices") \in Seq(Names)
  BY <1>1, ChildPath
<1>4. Grows(Store!Missing({}, c, "Sensors", "SensorCollection", "sensors",
                          Store!init_sensor({}, Append(c, "Sensors"), "CabinetTemp")), c, "Chassis")
  BY <1>1, <1>2, <1>3, LeafGrows, RecGrows DEF Store!init_sensor
<1>5. Grows(Store!Missing({}, c, "Thermal", "Thermal", "thermal",
                          Store!init_thermal({}, Append(c, "Thermal"))), c, "Chassis")
  BY <1>1, <1>3, ThermalGrows, RecGrows
<1>6. Grows(Store!Missing({}, c, "Storage", "StorageCollection", "storage",
                          Store!init_storage_collection({}, Append(c, "Storage"), "1")), c, "Chassis")
  BY <1>1, <1>3, StorageCollectionGrows, RecGrows
<1>7. Grows(Store!Missing({}, c, "Power", "Power", "power",
                          Store!init_power({}, Append(c, "Power"))), c, "Chassis")
  BY <1>1, <1>3, PowerGrows, RecGrows
<1>8. Grows(Store!Missing({}, c, "LogServices", "LogServiceCollection", "log_service",
                          Store!init_log_service({}, Append(c, "LogServices"), "Log1")), c, "Chassis")
  BY <1>1, <1>3, LogServiceGrows, RecGrows
<1> QED
  BY <1>4, <1>5, <1>6, <1>7, <1>8, GrowsUnion DEF Store!init_chassis

\* What init_manager makes.
LEMMA ManagerGrows ==
    ASSUME NEW m \in Seq(Names)
    PROVE  Grows(Store!init_manager({}, m), m, "Manager")
<1>1. /\ Under("Manager", "NetworkProtocol", "NetworkProtocol", "network")
      /\ Under("Manager", "EthernetInterfaces", "EthernetInterfaceCollection", "ethernet")
      /\ Under("Manager", "LogServices", "LogServiceCollection", "log_service")
      /\ Under("Manager", "VirtualMedia", "VirtualMediaCollection", "virtual_media")
      /\ Under("Manager", "Radius", "Radius", "radius")
  BY DEF Under, Children
<1>2. Append(m, "EthernetInterfaces") \in Seq(Names) /\ Append(m, "LogServices") \in Seq(Names)
  BY <1>1, ChildPath
<1>3. Grows(Store!Missing({}, m, "EthernetInterfaces", "EthernetInterfaceCollection", "ethernet",
                          UNION {Store!init_ethernet(Append(m, "EthernetInterfaces"), n) : n \in Nics}),
            m, "Manager")
  BY <1>1, <1>2, EthernetsGrow, RecGrows
<1>4. Grows(Store!Missing({}, m, "LogServices", "LogServiceCollection", "log_service",
                          Store!init_log_service({}, Append(m, "LogServices"), "Log1")), m, "Manager")
  BY <1>1, <1>2, LogServiceGrows, RecGrows
<1>5. /\ Grows(Store!Rec(m, "NetworkProtocol", "NetworkProtocol", "network"), m, "Manager")
      /\ Grows(Store!Missing({}, m, "VirtualMedia", "VirtualMediaCollection", "virtual_media", {}),
               m, "Manager")
      /\ Grows(Store!Missing({}, m, "Radius", "Radius", "radius", {}), m, "Manager")
  BY <1>1, LeafGrows
<1> QED
  BY <1>3, <1>4, <1>5, GrowsUnion DEF Store!init_manager

\* What init_update_service makes.
LEMMA UpdateServiceGrows ==
    ASSUME NEW s \in Seq(Names)
    PROVE  Grows(Store!init_update_service({}, s), s, "UpdateService")
<1> DEFINE ids == {"CMM", "WEB", "HA"}
<1>1. /\ Under("UpdateService", "FirmwareInventory", "FirmwareInventoryCollection", "firmware_inventory")
      /\ Under("UpdateService", "SoftwareInventory", "SoftwareInventoryCollection", "software_inventory")
  BY DEF Under, Children
<1>2. \A id \in ids : Under("FirmwareInventoryCollection", id, "SoftwareInventory", "members")
  BY DEF Under, Children, Of
<1>3. Append(s, "FirmwareInventory") \in Seq(Names)
  BY <1>1, ChildPath
<1>4. \A id \in ids :
         Grows(Store!init_software_inventory(Append(s, "FirmwareInventory"), id),
               Append(s, "FirmwareInventory"), "FirmwareInventoryCollection")
  BY <1>2, <1>3, LeafGrows DEF Store!init_software_inventory
<1>5. Grows(UNION {Store!init_software_inventory(Append(s, "FirmwareInventory"), id) : id \in ids},
            Append(s, "FirmwareInventory"), "FirmwareInventoryCollection")
  BY <1>4, GrowsUnions
<1>6. Grows(Store!Missing({}, s, "SoftwareInventory", "SoftwareInventoryCollection",
                          "software_inventory", {}), s, "UpdateService")
  BY <1>1, LeafGrows
<1> QED
  BY <1>1, <1>5, <1>6, RecGrows, GrowsUnion DEF Store!init_update_service

\* What init_event_service makes.
LEMMA EventServiceGrows ==
    ASSUME NEW s \in Seq(Names)
    PROVE  Grows(Store!init_event_service({}, s), s, "EventService")
<1>1. Under("EventService", "Subscriptions", "EventDestinationCollection", "subscriptions")
  BY DEF Under, Children
<1>2. Under("EventDestinationCollection", "1", "EventDestination", "members")
  BY DEF Under, Children, Of
<1>3. Grows(Store!init_event_destination({}, Append(s, "Subscriptions"), "1"),
            Append(s, "Subscriptions"), "EventDestinationCollection")
  BY <1>1, <1>2, ChildPath, LeafGrows DEF Store!init_event_destination
<1> QED
  BY <1>1, <1>3, RecGrows DEF Store!init_event_service

\* What init_account_service makes.
LEMMA AccountServiceGrows ==
    ASSUME NEW s \in Seq(Names)
    PROVE  Grows(Store!init_account_service({}, s), s, "AccountService")
<1> DEFINE roles == {"Administrator", "Operator", "ReadOnly"}
           ps == Append(s, "Roles")
           pa == Append(s, "Accounts")
<1>1. /\ Under("AccountService", "Roles", "RoleCollection", "role_collection")
      /\ Under("AccountService", "Accounts", "AccountCollection", "account_collection")
      /\ Under("Account", "Certificates", "CertificateCollection", "certificates")
  BY DEF Under, Children
<1>2. /\ \A r \in roles : Under("RoleCollection", r, "Role", "members")
      /\ \A a \in Users : Under("AccountCollection", a, "Account", "members")
  BY DEF Under, Children, Of
<1>3. ps \in Seq(Names) /\ pa \in Seq(Names)
  BY <1>1, ChildPath
<1> HIDE DEF ps, pa
<1>4. \A r \in roles : Grows(Store!Member(ps, r, "Role"), ps, "RoleCollection")
  BY <1>2, <1>3, LeafGrows
<1>5. Grows(UNION {Store!Member(ps, r, "Role") : r \in roles}, ps, "RoleCollection")
  BY <1>4, GrowsUnions
<1>6. ASSUME NEW a \in Users
      PROVE  Grows(Store!Member(pa, a, "Account")
                   \cup Store!Rec(s \o <<"Accounts", a>>, "Certificates",
                                  "CertificateCollection", "certificates"),
                   pa, "AccountCollection")
  <2>1. Append(pa, a) \in Seq(Names)
    BY <1>2, <1>3, ChildPath
  <2>2. Grows(Store!Rec(Append(pa, a), "Certificates", "CertificateCollection", "certificates"),
              Append(pa, a), "Account")
    BY <1>1, <2>1, LeafGrows
  <2>3. a \in Names /\ "Accounts" \in Names
    BY <1>1, <1>2, Zenon DEF Under, Names
  <2>4. s \o <<"Accounts", a>> = Append(pa, a)
    BY <2>3, TwoNames DEF pa
  <2> QED
    BY <1>2, <1>3, <2>2, <2>4, RecGrows DEF Store!Member
<1>7. Grows(UNION {Store!Member(pa, a, "Account")
                   \cup Store!Rec(s \o <<"Accounts", a>>, "Certificates",
                                  "CertificateCollection", "certificates") : a \in Users},
            pa, "AccountCollection")
  BY <1>6, GrowsUnions
<1> QED
  BY <1>1, <1>5, <1>7, RecGrows, GrowsUnion DEF Store!init_account_service, ps, pa

-----------------------------------------------------------------------------
(* The tree of a first start.                                              *)

Root == [uri |-> <<>>, kind |-> "ServiceRoot", field |-> "root"]

Services == {"Systems", "Chassis", "Managers", "UpdateService", "TaskService", "EventService",
             "CertificateService", "AccountService", "SessionService"}

\* Every record but the root is the child of a record.
LEMMA TreeGrows ==
    \A r \in Store!FullTree :
        /\ r.uri \in Seq(Names)
        /\ r = Root \/ \E q \in Store!FullTree : HangsFrom(r, q.uri, q.kind)
<1>1. /\ Under("ServiceRoot", "Systems", "Systems", "system")
      /\ Under("ServiceRoot", "Chassis", "Chassis", "chassis")
      /\ Under("ServiceRoot", "Managers", "Manager", "manager")
      /\ Under("ServiceRoot", "UpdateService", "UpdateService", "update_service")
      /\ Under("ServiceRoot", "TaskService", "TaskService", "task_service")
      /\ Under("ServiceRoot", "EventService", "EventService", "event_service")
      /\ Under("ServiceRoot", "CertificateService", "CertificateService", "certificate_service")
      /\ Under("ServiceRoot", "AccountService", "AccountService", "account_service")
      /\ Under("ServiceRoot", "SessionService", "SessionService", "session_service")
      /\ Under("ServiceRoot", "MessageRegistry", "MessageRegistry", "none")
  <2> DEFINE R ==
           [Systems |-> <<"Systems", "system">>, Chassis |-> <<"Chassis", "chassis">>,
            Managers |-> <<"Manager", "manager">>,
            UpdateService |-> <<"UpdateService", "update_service">>,
            TaskService |-> <<"TaskService", "task_service">>,
            EventService |-> <<"EventService", "event_service">>,
            CertificateService |-> <<"CertificateService", "certificate_service">>,
            AccountService |-> <<"AccountService", "account_service">>,
            SessionService |-> <<"SessionService", "session_service">>,
            MessageRegistry |-> <<"MessageRegistry", "none">>]
  <2>1. "ServiceRoot" \in DOMAIN Children /\ Children["ServiceRoot"] = R
    BY DEF Children
  <2> QED
    BY <2>1 DEF Under
<1>2. /\ Under("TaskService", "Tasks", "TaskCollection", "task_collection")
      /\ Under("CertificateService", "CertificateLocations", "CertificateLocation",
               "certificate_location")
      /\ Under("SessionService", "Sessions", "SessionCollection", "session_collection")
  BY DEF Under, Children
<1>3. <<>> \in Seq(Names)
  OBVIOUS
<1>4. \A n \in Services : Append(<<>>, n) = <<n>> /\ <<n>> \in Seq(Names)
  <2>1. ASSUME NEW n \in Services PROVE n \in Names
    BY <1>1, Zenon DEF Under, Names, Services
  <2> QED
    BY <2>1
<1>5. Grows(Store!Missing({}, <<>>, "Systems", "Systems", "system",
                          Store!init_system({}, <<"Systems">>)),
            <<>>, "ServiceRoot")
  <2>1. Grows(Store!init_system({}, <<"Systems">>), <<"Systems">>, "Systems")
    BY <1>4, SystemGrows DEF Services
  <2> QED
    BY <1>1, <1>3, <1>4, <2>1, RecGrows DEF Services
<1>6. Grows(Store!Missing({}, <<>>, "Chassis", "Chassis", "chassis",
                          Store!init_chassis({}, <<"Chassis">>)),
            <<>>, "ServiceRoot")
  <2>1. Grows(Store!init_chassis({}, <<"Chassis">>), <<"Chassis">>, "Chassis")
    BY <1>4, ChassisGrows DEF Services
  <2> QED
    BY <1>1, <1>3, <1>4, <2>1, RecGrows DEF Services
<1>7. Grows(Store!Missing({}, <<>>, "Managers", "Manager", "manager",
                          Store!init_manager({}, <<"Managers">>)),
            <<>>, "ServiceRoot")
  <2>1. Grows(Store!init_manager({}, <<"Managers">>), <<"Managers">>, "Manager")
    BY <1>4, ManagerGrows DEF Services
  <2> QED
    BY <1>1, <1>3, <1>4, <2>1, RecGrows DEF Services
<1>8. Grows(Store!Missing({}, <<>>, "UpdateService", "UpdateService", "update_service",
                          Store!init_update_service({}, <<"UpdateService">>)),
            <<>>, "ServiceRoot")
  <2>1. Grows(Store!init_update_service({}, <<"UpdateService">>), <<"UpdateService">>, "UpdateService")
    BY <1>4, UpdateServiceGrows DEF Services
  <2> QED
    BY <1>1, <1>3, <1>4, <2>1, RecGrows DEF Services
<1>9. Grows(Store!Missing({}, <<>>, "TaskService", "TaskService", "task_service",
                          Store!init_task_service({}, <<"TaskService">>)),
            <<>>, "ServiceRoot")
  <2>1. Grows(Store!init_task_service({}, <<"TaskService">>), <<"TaskService">>, "TaskService")
    BY <1>2, <1>4, LeafGrows DEF Store!init_task_service, Services
  <2> QED
    BY <1>1, <1>3, <1>4, <2>1, RecGrows DEF Services
<1>10. Grows(Store!Missing({}, <<>>, "EventService", "EventService", "event_service",
                          Store!init_event_service({}, <<"EventService">>)),
            <<>>, "ServiceRoot")
  <2>1. Grows(Store!init_event_service({}, <<"EventService">>), <<"EventService">>, "EventService")
    BY <1>4, EventServiceGrows DEF Services
  <2> QED
    BY <1>1, <1>3, <1>4, <2>1, RecGrows DEF Services
<1>11. Grows(Store!Missing({}, <<>>, "CertificateService", "CertificateService", "certificate_service",
                          Store!Rec(<<"CertificateService">>, "CertificateLocations",
                                    "CertificateLocation", "certificate_location")),
            <<>>, "ServiceRoot")
  <2>1. Grows(Store!Rec(<<"CertificateService">>, "CertificateLocations",
                                    "CertificateLocation", "certificate_location"),
                                        <<"CertificateService">>, "CertificateService")
    BY <1>2, <1>4, LeafGrows DEF Services
  <2> QED
    BY <1>1, <1>3, <1>4, <2>1, RecGrows DEF Services
<1>12. Grows(Store!Missing({}, <<>>, "AccountService", "AccountService", "account_service",
                          Store!init_account_service({}, <<"AccountService">>)),
            <<>>, "ServiceRoot")
  <2>1. Grows(Store!init_account_service({}, <<"AccountService">>), <<"AccountService">>, "AccountService")
    BY <1>4, AccountServiceGrows DEF Services
  <2> QED
    BY <1>1, <1>3, <1>4, <2>1, RecGrows DEF Services
<1>13. Grows(Store!Missing({}, <<>>, "SessionService", "SessionService", "session_service",
                          Store!init_session_service({}, <<"SessionService">>)),
            <<>>, "ServiceRoot")
  <2>1. Grows(Store!init_session_service({}, <<"SessionService">>), <<"SessionService">>, "SessionService")
    BY <1>2, <1>4, LeafGrows DEF Store!init_session_service, Services
  <2> QED
    BY <1>1, <1>3, <1>4, <2>1, RecGrows DEF Services
<1>14. Grows(Store!init_message_registry, <<>>, "ServiceRoot")
  <2>1. Store!init_message_registry = Store!Rec(<<>>, "MessageRegistry", "MessageRegistry", "none")
    BY DEF Store!init_message_registry, Store!Rec, Store!RegistryUri
  <2> QED
    BY <1>1, <1>3, <2>1, LeafGrows
<1>15. PICK others : Store!FullTree = {Root} \cup others /\ Grows(others, <<>>, "ServiceRoot")
  <2> DEFINE b0 == Store!Missing({}, <<>>, "Systems", "Systems", "system",
                          Store!init_system({}, <<"Systems">>))
  <2> DEFINE b1 == Store!Missing({}, <<>>, "Chassis", "Chassis", "chassis",
                          Store!init_chassis({}, <<"Chassis">>))
  <2> DEFINE b2 == Store!Missing({}, <<>>, "Managers", "Manager", "manager",
                          Store!init_manager({}, <<"Managers">>))
  <2> DEFINE b3 == Store!Missing({}, <<>>, "UpdateService", "UpdateService", "update_service",
                          Store!init_update_service({}, <<"UpdateService">>))
  <2> DEFINE b4 == Store!Missing({}, <<>>, "TaskService", "TaskService", "task_service",
                          Store!init_task_service({}, <<"TaskService">>))
  <2> DEFINE b5 == Store!Missing({}, <<>>, "EventService", "EventService", "event_service",
                          Store!init_event_service({}, <<"EventService">>))
  <2> DEFINE b6 == Store!Missing({}, <<>>, "CertificateService", "CertificateService", "certificate_service",
                          Store!Rec(<<"CertificateService">>, "CertificateLocations",
                                    "CertificateLocation", "certificate_location"))
  <2> DEFINE b7 == Store!Missing({}, <<>>, "AccountService", "AccountService", "account_service",
                          Store!init_account_service({}, <<"AccountService">>))
  <2> DEFINE b8 == Store!Missing({}, <<>>, "SessionService", "SessionService", "session_service",
                          Store!init_session_service({}, <<"SessionService">>))
  <2>1. Store!FullTree = {Root} \cup (b0 \cup b1 \cup b2 \cup b3 \cup b4 \cup b5 \cup b6 \cup b7 \cup b8
                                      \cup Store!init_message_registry)
    BY Zenon DEF Store!FullTree, Store!ServiceRoot, Root
  <2> HIDE DEF b0, b1, b2, b3, b4, b5, b6, b7, b8
  <2>2. Grows(b0 \cup b1 \cup b2 \cup b3 \cup b4 \cup b5 \cup b6 \cup b7 \cup b8
              \cup Store!init_message_registry, <<>>, "ServiceRoot")
    BY <1>5, <1>6, <1>7, <1>8, <1>9, <1>10, <1>11, <1>12, <1>13, <1>14, GrowsUnion DEF b0, b1, b2,
       b3, b4, b5, b6, b7, b8
  <2> QED
    BY <2>1, <2>2
<1> QED
  <2>1. Root \in Store!FullTree /\ Root.uri = <<>> /\ Root.kind = "ServiceRoot"
    BY <1>15 DEF Root
  <2>2. ASSUME NEW r \in Store!FullTree, r # Root
        PROVE  r.uri \in Seq(Names) /\ \E q \in Store!FullTree : HangsFrom(r, q.uri, q.kind)
    <3>1. r \in others
      BY <1>15, <2>2
    <3>2. r.uri \in Seq(Names) /\ (HangsFrom(r, <<>>, "ServiceRoot")
              \/ \E q \in others : HangsFrom(r, q.uri, q.kind))
      BY <1>15, <3>1, Zenon DEF Grows
    <3> QED
      BY <1>15, <2>1, <3>2
  <2> QED
    BY <1>3, <2>1, <2>2

\* A set of numbers that is not empty has a least one.
LEMMA LeastNumber ==
    ASSUME NEW S, S \subseteq Nat, S # {}
    PROVE  \E x \in S : \A y \in S : x <= y
<1> DEFINE Less == {p \in Nat \X Nat : p[1] < p[2]}
<1>1. IsWellFoundedOn(Less, Nat)
  BY NatLessThanWellFounded, Zenon DEF OpToRel
<1>2. PICK x \in S : \A y \in S : <<y, x>> \notin Less
  <2> HIDE DEF Less
  <2> QED
    BY <1>1, WFMin
<1>3. ASSUME NEW y \in S PROVE x <= y
  <2>1. x \in Nat /\ y \in Nat /\ <<y, x>> \notin Less
    BY <1>2
  <2>2. y < x => <<y, x>> \in Less
    <3>1. <<y, x>> \in Nat \X Nat /\ <<y, x>>[1] = y /\ <<y, x>>[2] = x
      BY <2>1
    <3> QED
      BY <3>1
  <2> HIDE DEF Less
  <2> QED
    BY <2>1, <2>2
<1> QED
  BY <1>3

\* The parent of a child.
LEMMA ParentOfChild ==
    ASSUME NEW p \in Seq(Names), NEW n \in Names
    PROVE  Store!Parent(Append(p, n)) = p
<1>1. /\ Append(p, n) \in Seq(Names) /\ Len(Append(p, n)) = Len(p) + 1
      /\ \A i \in 1 .. Len(p) : Append(p, n)[i] = p[i]
  BY AppendProperties
<1>2. SubSeq(Append(p, n), 1, Len(p)) = p
  BY <1>1
<1> QED
  BY <1>1, <1>2 DEF Store!Parent, Store!Front

IsRecord(r) == r = [uri |-> r.uri, kind |-> r.kind, field |-> r.field]

LastName(u) == u[Len(u)]

\* What hangs from a record.
LEMMA Hangs ==
    ASSUME NEW r, NEW p \in Seq(Names), NEW k, HangsFrom(r, p, k)
    PROVE  /\ Under(k, LastName(r.uri), r.kind, r.field) /\ LastName(r.uri) \in Names
           /\ IsRecord(r) /\ r.uri # <<>> /\ Len(r.uri) = Len(p) + 1
           /\ Store!Parent(r.uri) = p /\ r.uri = Append(p, LastName(r.uri))
<1>1. PICK n, kind, field : Under(k, n, kind, field)
                            /\ r = [uri |-> Append(p, n), kind |-> kind, field |-> field]
  BY Zenon DEF HangsFrom
<1>2. n \in Names
  BY <1>1, Zenon DEF Under, Names
<1>3. r.uri = Append(p, n) /\ r.kind = kind /\ r.field = field
  BY <1>1
<1>4. Len(r.uri) = Len(p) + 1 /\ r.uri # <<>> /\ r.uri[Len(p) + 1] = n
  BY <1>2, <1>3, AppendProperties
<1>5. LastName(r.uri) = n
  BY <1>4 DEF LastName
<1>6. IsRecord(r)
  BY <1>1, <1>3, Zenon DEF IsRecord
<1> QED
  BY <1>1, <1>2, <1>3, <1>4, <1>5, <1>6, ParentOfChild

\* Every record but the root has its parent's in the tree.
LEMMA ParentRecord ==
    ASSUME NEW r \in Store!FullTree, r # Root
    PROVE  /\ IsRecord(r) /\ r.uri # <<>>
           /\ \E q \in Store!FullTree :
                 /\ q.uri = Store!Parent(r.uri) /\ Len(r.uri) = Len(q.uri) + 1
                 /\ Under(q.kind, LastName(r.uri), r.kind, r.field)
                 /\ LastName(r.uri) \in Names /\ r.uri = Append(q.uri, LastName(r.uri))
<1>1. PICK q \in Store!FullTree : HangsFrom(r, q.uri, q.kind)
  BY TreeGrows
<1>2. q.uri \in Seq(Names)
  BY TreeGrows
<1> QED
  BY <1>1, <1>2, Hangs

\* No two records have the same uri.
LEMMA OneRecord ==
    \A r, s \in Store!FullTree : r.uri = s.uri => r = s
<1> DEFINE Doubled == {r \in Store!FullTree : \E s \in Store!FullTree : r.uri = s.uri /\ r # s}
           Lengths == {Len(r.uri) : r \in Doubled}
<1> SUFFICES ASSUME Doubled # {} PROVE FALSE
  OBVIOUS
<1>1. \A r \in Store!FullTree : r.uri \in Seq(Names) /\ Len(r.uri) \in Nat
  BY TreeGrows
<1>2. Lengths \subseteq Nat /\ Lengths # {}
  BY <1>1
<1>3. PICK x \in Lengths : \A y \in Lengths : x <= y
  <2> HIDE DEF Lengths
  <2> QED
    BY <1>2, LeastNumber
<1>4. PICK r \in Doubled : \A q \in Doubled : Len(r.uri) <= Len(q.uri)
  <2>1. /\ \E r \in Doubled : x = Len(r.uri)
        /\ \A q \in Doubled : x <= Len(q.uri)
    <3> HIDE DEF Doubled
    <3> QED
      BY <1>3
  <2> HIDE DEF Doubled
  <2> QED
    BY <2>1
<1>5. PICK s \in Store!FullTree : r.uri = s.uri /\ r # s
  BY <1>4
<1>6. r \in Store!FullTree
  BY <1>4
<1>7. \A q \in Store!FullTree : Len(q.uri) < Len(r.uri) => q \notin Doubled
  BY <1>1, <1>4, SMTT(30)
<1>8. r # Root /\ s # Root
  <2>1. Root.uri = <<>>
    BY DEF Root
  <2> HIDE DEF Doubled, Lengths
  <2> QED
    BY <1>5, <1>6, <2>1, ParentRecord
<1>9. PICK q \in Store!FullTree :
         /\ q.uri = Store!Parent(r.uri) /\ Len(r.uri) = Len(q.uri) + 1
         /\ Under(q.kind, LastName(r.uri), r.kind, r.field)
  BY <1>6, <1>8, ParentRecord
<1>10. PICK p \in Store!FullTree :
         p.uri = Store!Parent(s.uri) /\ Under(p.kind, LastName(s.uri), s.kind, s.field)
  BY <1>8, ParentRecord
<1>11. q = p
  <2>1. q \notin Doubled
    BY <1>1, <1>7, <1>9
  <2> QED
    BY <1>5, <1>9, <1>10, <2>1
<1> HIDE DEF Doubled, Lengths
<1>12. r.kind = s.kind /\ r.field = s.field
  <2>1. <<r.kind, r.field>> = <<s.kind, s.field>>
    BY <1>5, <1>9, <1>10, <1>11, Zenon DEF Under
  <2> QED
    BY <2>1
<1>13. IsRecord(r) /\ IsRecord(s)
  BY <1>6, <1>8, ParentRecord
<1> QED
  BY <1>5, <1>12, <1>13 DEF IsRecord

\* So the kind of a uri is that of its record.
LEMMA KindOf ==
    ASSUME NEW r \in Store!FullTree
    PROVE  r.uri \in Store!AllUris /\ Store!Kind[r.uri] = r.kind
<1>1. r.uri \in Store!AllUris
  BY DEF Store!AllUris, Store!Uris
<1>2. (CHOOSE s \in Store!FullTree : s.uri = r.uri) = r
  BY OneRecord
<1> QED
  BY <1>1, <1>2, Zenon DEF Store!Kind

\* A uri, its record and its parent.
LEMMA UriIs ==
    ASSUME NEW u \in Store!AllUris
    PROVE  /\ u \in Seq(Names)
           /\ \E r \in Store!FullTree : r.uri = u /\ r.kind = Store!Kind[u]
           /\ u # <<>> =>
                 /\ Store!Parent(u) \in Store!AllUris
                 /\ u = Append(Store!Parent(u), LastName(u)) /\ LastName(u) \in Names
                 /\ Len(u) = Len(Store!Parent(u)) + 1
                 /\ \E f : Under(Store!Kind[Store!Parent(u)], LastName(u), Store!Kind[u], f)
<1>1. PICK r \in Store!FullTree : r.uri = u
  BY DEF Store!AllUris, Store!Uris
<1>2. r.kind = Store!Kind[u] /\ u \in Seq(Names)
  BY <1>1, KindOf, TreeGrows
<1>3. ASSUME u # <<>>
      PROVE  /\ Store!Parent(u) \in Store!AllUris
             /\ u = Append(Store!Parent(u), LastName(u)) /\ LastName(u) \in Names
             /\ Len(u) = Len(Store!Parent(u)) + 1
             /\ \E f : Under(Store!Kind[Store!Parent(u)], LastName(u), Store!Kind[u], f)
  <2>1. r # Root
    BY <1>1, <1>3 DEF Root
  <2>2. PICK q \in Store!FullTree :
           /\ q.uri = Store!Parent(u) /\ Len(u) = Len(q.uri) + 1
           /\ Under(q.kind, LastName(u), r.kind, r.field)
           /\ LastName(u) \in Names /\ u = Append(q.uri, LastName(u))
    BY <1>1, <2>1, ParentRecord
  <2>3. q.uri \in Store!AllUris /\ Store!Kind[q.uri] = q.kind
    BY KindOf
  <2> QED
    BY <1>2, <2>2, <2>3
<1> QED
  BY <1>1, <1>2, <1>3

-----------------------------------------------------------------------------
(* What dependency_injection makes of the tree.                            *)

\* The inventories of UpdateService change places.
Swapped(field) ==
    CASE field = "firmware_inventory" -> "software_inventory"
      [] field = "software_inventory" -> "firmware_inventory"
      [] OTHER -> field

CollectionKinds ==
    {"ProcessorCollection", "StorageCollection", "MemoryCollection", "EthernetInterfaceCollection",
     "LogServiceCollection", "SimpleStorageCollection", "SensorCollection",
     "VirtualMediaCollection", "LogEntryCollection", "TaskCollection", "SessionCollection",
     "AccountCollection", "RoleCollection", "CertificateCollection",
     "EventDestinationCollection", "SoftwareInventoryCollection",
     "FirmwareInventoryCollection", "DriveCollection", "VolumeCollection"}

MemberKinds == {"Storage", "StorageControllers", "Drive", "Volume", "Processors", "Memory",
    "EthernetInterfaces", "LogService", "LogEntry", "SimpleStorage", "Sensor", "Temperature", "Fan",
    "PowerControl", "Voltage", "PowerSupply", "SoftwareInventory", "EventDestination", "Role", "Account"}

\* The kinds dependency_injection has in case COLLECTION_TYPE.
LEMMA CollectionsAre == Store!Collections = CollectionKinds
<1> DEFINE F == Store!CollectionFields
<1>1. DOMAIN F = {"Systems", "Chassis", "Manager", "LogService", "TaskService", "SessionService",
                  "AccountService", "Account", "NetworkProtocol", "EventService", "UpdateService",
                  "Storage"}
  BY DEF Store!CollectionFields
<1>2. /\ DOMAIN F["Systems"] = {"ProcessorCollection", "StorageCollection", "MemoryCollection",
                                "EthernetInterfaceCollection", "LogServiceCollection",
                                "SimpleStorageCollection"}
      /\ DOMAIN F["Chassis"] = {"SensorCollection", "LogServiceCollection", "StorageCollection"}
      /\ DOMAIN F["Manager"] = {"EthernetInterfaceCollection", "LogServiceCollection",
                                "VirtualMediaCollection"}
      /\ DOMAIN F["LogService"] = {"LogEntryCollection"}
      /\ DOMAIN F["TaskService"] = {"TaskCollection"}
      /\ DOMAIN F["SessionService"] = {"SessionCollection"}
      /\ DOMAIN F["AccountService"] = {"AccountCollection", "RoleCollection"}
      /\ DOMAIN F["Account"] = {"CertificateCollection"}
      /\ DOMAIN F["NetworkProtocol"] = {"CertificateCollection"}
      /\ DOMAIN F["EventService"] = {"EventDestinationCollection"}
      /\ DOMAIN F["UpdateService"] = {"SoftwareInventoryCollection", "FirmwareInventoryCollection"}
      /\ DOMAIN F["Storage"] = {"DriveCollection", "VolumeCollection"}
  BY DEF Store!CollectionFields
<1> HIDE DEF F
<1>3. UNION {DOMAIN F[h] : h \in DOMAIN F} = CollectionKinds
  BY <1>1, <1>2 DEF CollectionKinds
<1> QED
  BY <1>3 DEF Store!Collections, F

\* The cases of single objects and lists do not ask for the parent.
LEMMA ObjectField ==
    ASSUME NEW c \in DOMAIN Store!ObjectFields, NEW j
    PROVE  Store!InjectedField(c, j) = Store!ObjectFields[c]
<1>1. c \notin Store!Collections
  BY CollectionsAre DEF Store!ObjectFields, CollectionKinds
<1> QED
  BY <1>1 DEF Store!InjectedField

\* Those of collections do.
LEMMA CollectionField ==
    ASSUME NEW c \in CollectionKinds, NEW j \in DOMAIN Store!CollectionFields,
           c \in DOMAIN Store!CollectionFields[j]
    PROVE  Store!InjectedField(c, j) = Store!CollectionFields[j][c]
BY CollectionsAre DEF Store!InjectedField

\* dependency_injection puts a child in the member the init_* functions put it
\* in, but for the two inventories.
LEMMA FieldIsRestored ==
    ASSUME NEW k, NEW n, NEW kind, NEW field, Under(k, n, kind, field)
    PROVE  Store!InjectedField(kind, k) = Swapped(field)
<1> DEFINE Restored(j) == \A m, c, f : Under(j, m, c, f) => Store!InjectedField(c, j) = Swapped(f)
<1>1. ASSUME NEW j, \A m \in DOMAIN Children[j] : \E c \in MemberKinds : Children[j][m] = <<c, "members">>
      PROVE  Restored(j)
  <2>1. ASSUME NEW c \in MemberKinds PROVE Store!InjectedField(c, j) = "members"
    BY CollectionsAre DEF Store!InjectedField, Store!ObjectFields, MemberKinds, CollectionKinds
  <2>2. ASSUME NEW m, NEW c, NEW f, Under(j, m, c, f) PROVE c \in MemberKinds /\ f = "members"
    <3>1. PICK d \in MemberKinds : <<c, f>> = <<d, "members">>
      BY <1>1, <2>2 DEF Under
    <3> QED
      BY <3>1
  <2> QED
    BY <2>1, <2>2 DEF Swapped
<1>2. Restored("ServiceRoot")
  <2>1. \A m, c, f : Under("ServiceRoot", m, c, f) =>
           <<c, f>> \in {<<"AccountService", "account_service">>,
                       <<"CertificateService", "certificate_service">>,
                       <<"Chassis", "chassis">>,
                       <<"EventService", "event_service">>,
                       <<"Manager", "manager">>,
                       <<"MessageRegistry", "none">>,
                       <<"SessionService", "session_service">>,
                       <<"Systems", "system">>,
                       <<"TaskService", "task_service">>,
                       <<"UpdateService", "update_service">>}
    <3> DEFINE R ==
             [Systems |-> <<"Systems", "system">>, Chassis |-> <<"Chassis", "chassis">>,
              Managers |-> <<"Manager", "manager">>,
              UpdateService |-> <<"UpdateService", "update_service">>,
              TaskService |-> <<"TaskService", "task_service">>,
              EventService |-> <<"EventService", "event_service">>,
              CertificateService |-> <<"CertificateService", "certificate_service">>,
              AccountService |-> <<"AccountService", "account_service">>,
              SessionService |-> <<"SessionService", "session_service">>,
              MessageRegistry |-> <<"MessageRegistry", "none">>]
    <3>1. Children["ServiceRoot"] = R
      BY DEF Children
    <3>2. \A m, c, f : Under("ServiceRoot", m, c, f) => m \in DOMAIN R /\ R[m] = <<c, f>>
      <4> HIDE DEF R
      <4> QED
        BY <3>1 DEF Under
    <3> QED
      BY <3>2
  <2>2. /\ Store!InjectedField("AccountService", "ServiceRoot") = "account_service"
        /\ Store!InjectedField("CertificateService", "ServiceRoot") = "certificate_service"
        /\ Store!InjectedField("Chassis", "ServiceRoot") = "chassis"
        /\ Store!InjectedField("EventService", "ServiceRoot") = "event_service"
        /\ Store!InjectedField("Manager", "ServiceRoot") = "manager"
        /\ Store!InjectedField("MessageRegistry", "ServiceRoot") = "none"
        /\ Store!InjectedField("SessionService", "ServiceRoot") = "session_service"
        /\ Store!InjectedField("Systems", "ServiceRoot") = "system"
        /\ Store!InjectedField("TaskService", "ServiceRoot") = "task_service"
        /\ Store!InjectedField("UpdateService", "ServiceRoot") = "update_service"
    BY ObjectField DEF Store!ObjectFields
  <2> QED
    BY <2>1, <2>2 DEF Swapped
<1>3. Restored("Systems")
  <2>1. \A m, c, f : Under("Systems", m, c, f) =>
           <<c, f>> \in {<<"Bios", "bios">>,
                       <<"EthernetInterfaceCollection", "ethernet">>,
                       <<"LogServiceCollection", "log_service">>,
                       <<"MemoryCollection", "memory">>,
                       <<"ProcessorCollection", "processor">>,
                       <<"SimpleStorageCollection", "simple_storage">>,
                       <<"StorageCollection", "storage">>}
    <3> DEFINE R ==
             [Storage |-> <<"StorageCollection", "storage">>,
              Processors |-> <<"ProcessorCollection", "processor">>,
              Memory |-> <<"MemoryCollection", "memory">>,
              EthernetInterfaces |-> <<"EthernetInterfaceCollection", "ethernet">>,
              LogServices |-> <<"LogServiceCollection", "log_service">>,
              SimpleStorage |-> <<"SimpleStorageCollection", "simple_storage">>,
              Bios |-> <<"Bios", "bios">>]
    <3>1. Children["Systems"] = R
      BY DEF Children
    <3>2. \A m, c, f : Under("Systems", m, c, f) => m \in DOMAIN R /\ R[m] = <<c, f>>
      <4> HIDE DEF R
      <4> QED
        BY <3>1 DEF Under
    <3> QED
      BY <3>2
  <2>2. /\ Store!InjectedField("EthernetInterfaceCollection", "Systems") = "ethernet"
        /\ Store!InjectedField("LogServiceCollection", "Systems") = "log_service"
        /\ Store!InjectedField("MemoryCollection", "Systems") = "memory"
        /\ Store!InjectedField("ProcessorCollection", "Systems") = "processor"
        /\ Store!InjectedField("SimpleStorageCollection", "Systems") = "simple_storage"
        /\ Store!InjectedField("StorageCollection", "Systems") = "storage"
    BY CollectionField DEF CollectionKinds, Store!CollectionFields
  <2>3. /\ Store!InjectedField("Bios", "Systems") = "bios"
    BY ObjectField DEF Store!ObjectFields
  <2> QED
    BY <2>1, <2>2, <2>3 DEF Swapped
<1>4. Restored("Chassis")
  <2>1. \A m, c, f : Under("Chassis", m, c, f) =>
           <<c, f>> \in {<<"LogServiceCollection", "log_service">>,
                       <<"Power", "power">>,
                       <<"SensorCollection", "sensors">>,
                       <<"StorageCollection", "storage">>,
                       <<"Thermal", "thermal">>}
    <3> DEFINE R == [Sensors |-> <<"SensorCollection", "sensors">>,
                     Thermal |-> <<"Thermal", "thermal">>,
                     Storage |-> <<"StorageCollection", "storage">>,
                     Power |-> <<"Power", "power">>,
                     LogServices |-> <<"LogServiceCollection", "log_service">>]
    <3>1. Children["Chassis"] = R
      BY DEF Children
    <3>2. \A m, c, f : Under("Chassis", m, c, f) => m \in DOMAIN R /\ R[m] = <<c, f>>
      <4> HIDE DEF R
      <4> QED
        BY <3>1 DEF Under
    <3> QED
      BY <3>2
  <2>2. /\ Store!InjectedField("LogServiceCollection", "Chassis") = "log_service"
        /\ Store!InjectedField("SensorCollection", "Chassis") = "sensors"
        /\ Store!InjectedField("StorageCollection", "Chassis") = "storage"
    BY CollectionField DEF CollectionKinds, Store!CollectionFields
  <2>3. /\ Store!InjectedField("Power", "Chassis") = "power"
        /\ Store!InjectedField("Thermal", "Chassis") = "thermal"
    BY ObjectField DEF Store!ObjectFields
  <2> QED
    BY <2>1, <2>2, <2>3 DEF Swapped
<1>5. Restored("Manager")
  <2>1. \A m, c, f : Under("Manager", m, c, f) =>
           <<c, f>> \in {<<"EthernetInterfaceCollection", "ethernet">>,
                       <<"LogServiceCollection", "log_service">>,
                       <<"NetworkProtocol", "network">>,
                       <<"Radius", "radius">>,
                       <<"VirtualMediaCollection", "virtual_media">>}
    <3> DEFINE R == [NetworkProtocol |-> <<"NetworkProtocol", "network">>,
                     EthernetInterfaces |-> <<"EthernetInterfaceCollection", "ethernet">>,
                     LogServices |-> <<"LogServiceCollection", "log_service">>,
                     VirtualMedia |-> <<"VirtualMediaCollection", "virtual_media">>,
                     Radius |-> <<"Radius", "radius">>]
    <3>1. Children["Manager"] = R
      BY DEF Children
    <3>2. \A m, c, f : Under("Manager", m, c, f) => m \in DOMAIN R /\ R[m] = <<c, f>>
      <4> HIDE DEF R
      <4> QED
        BY <3>1 DEF Under
    <3> QED
      BY <3>2
  <2>2. /\ Store!InjectedField("EthernetInterfaceCollection", "Manager") = "ethernet"
        /\ Store!InjectedField("LogServiceCollection", "Manager") = "log_service"
        /\ Store!InjectedField("VirtualMediaCollection", "Manager") = "virtual_media"
    BY CollectionField DEF CollectionKinds, Store!CollectionFields
  <2>3. /\ Store!InjectedField("NetworkProtocol", "Manager") = "network"
        /\ Store!InjectedField("Radius", "Manager") = "radius"
    BY ObjectField DEF Store!ObjectFields
  <2> QED
    BY <2>1, <2>2, <2>3 DEF Swapped
<1>6. Restored("UpdateService")
  <2>1. \A m, c, f : Under("UpdateService", m, c, f) =>
           <<c, f>> \in {<<"FirmwareInventoryCollection", "firmware_inventory">>,
                       <<"SoftwareInventoryCollection", "software_inventory">>}
    <3> DEFINE R == [
                     FirmwareInventory |-> <<"FirmwareInventoryCollection", "firmware_inventory">>,
                     SoftwareInventory |-> <<"SoftwareInventoryCollection", "software_inventory">>]
    <3>1. Children["UpdateService"] = R
      BY DEF Children
    <3>2. \A m, c, f : Under("UpdateService", m, c, f) => m \in DOMAIN R /\ R[m] = <<c, f>>
      <4> HIDE DEF R
      <4> QED
        BY <3>1 DEF Under
    <3> QED
      BY <3>2
  <2>2. /\ Store!InjectedField("FirmwareInventoryCollection", "UpdateService") = "software_inventory"
        /\ Store!InjectedField("SoftwareInventoryCollection", "UpdateService") = "firmware_inventory"
    BY CollectionField DEF CollectionKinds, Store!CollectionFields
  <2> QED
    BY <2>1, <2>2 DEF Swapped
<1>7. Restored("TaskService")
  <2>1. \A m, c, f : Under("TaskService", m, c, f) =>
           <<c, f>> \in {<<"TaskCollection", "task_collection">>}
    <3> DEFINE R == [Tasks |-> <<"TaskCollection", "task_collection">>]
    <3>1. Children["TaskService"] = R
      BY DEF Children
    <3>2. \A m, c, f : Under("TaskService", m, c, f) => m \in DOMAIN R /\ R[m] = <<c, f>>
      <4> HIDE DEF R
      <4> QED
        BY <3>1 DEF Under
    <3> QED
      BY <3>2
  <2>2. /\ Store!InjectedField("TaskCollection", "TaskService") = "task_collection"
    BY CollectionField DEF CollectionKinds, Store!CollectionFields
  <2> QED
    BY <2>1, <2>2 DEF Swapped
<1>8. Restored("EventService")
  <2>1. \A m, c, f : Under("EventService", m, c, f) =>
           <<c, f>> \in {<<"EventDestinationCollection", "subscriptions">>}
    <3> DEFINE R == [Subscriptions |-> <<"EventDestinationCollection", "subscriptions">>]
    <3>1. Children["EventService"] = R
      BY DEF Children
    <3>2. \A m, c, f : Under("EventService", m, c, f) => m \in DOMAIN R /\ R[m] = <<c, f>>
      <4> HIDE DEF R
      <4> QED
        BY <3>1 DEF Under
    <3> QED
      BY <3>2
  <2>2. /\ Store!InjectedField("EventDestinationCollection", "EventService") = "subscriptions"
    BY CollectionField DEF CollectionKinds, Store!CollectionFields
  <2> QED
    BY <2>1, <2>2 DEF Swapped
<1>9. Restored("CertificateService")
  <2>1. \A m, c, f : Under("CertificateService", m, c, f) =>
           <<c, f>> \in {<<"CertificateLocation", "certificate_location">>}
    <3> DEFINE R == [
                     CertificateLocations |-> <<"CertificateLocation", "certificate_location">>]
    <3>1. Children["CertificateService"] = R
      BY DEF Children
    <3>2. \A m, c, f : Under("CertificateService", m, c, f) => m \in DOMAIN R /\ R[m] = <<c, f>>
      <4> HIDE DEF R
      <4> QED
        BY <3>1 DEF Under
    <3> QED
      BY <3>2
  <2>2. /\ Store!InjectedField("CertificateLocation", "CertificateService") = "certificate_location"
    BY ObjectField DEF Store!ObjectFields
  <2> QED
    BY <2>1, <2>2 DEF Swapped
<1>10. Restored("AccountService")
  <2>1. \A m, c, f : Under("AccountService", m, c, f) =>
           <<c, f>> \in {<<"AccountCollection", "account_collection">>,
                       <<"RoleCollection", "role_collection">>}
    <3> DEFINE R == [Roles |-> <<"RoleCollection", "role_collection">>,
                     Accounts |-> <<"AccountCollection", "account_collection">>]
    <3>1. Children["AccountService"] = R
      BY DEF Children
    <3>2. \A m, c, f : Under("AccountService", m, c, f) => m \in DOMAIN R /\ R[m] = <<c, f>>
      <4> HIDE DEF R
      <4> QED
        BY <3>1 DEF Under
    <3> QED
      BY <3>2
  <2>2. /\ Store!InjectedField("AccountCollection", "AccountService") = "account_collection"
        /\ Store!InjectedField("RoleCollection", "AccountService") = "role_collection"
    BY CollectionField DEF CollectionKinds, Store!CollectionFields
  <2> QED
    BY <2>1, <2>2 DEF Swapped
<1>11. Restored("SessionService")
  <2>1. \A m, c, f : Under("SessionService", m, c, f) =>
           <<c, f>> \in {<<"SessionCollection", "session_collection">>}
    <3> DEFINE R == [Sessions |-> <<"SessionCollection", "session_collection">>]
    <3>1. Children["SessionService"] = R
      BY DEF Children
    <3>2. \A m, c, f : Under("SessionService", m, c, f) => m \in DOMAIN R /\ R[m] = <<c, f>>
      <4> HIDE DEF R
      <4> QED
        BY <3>1 DEF Under
    <3> QED
      BY <3>2
  <2>2. /\ Store!InjectedField("SessionCollection", "SessionService") = "session_collection"
    BY CollectionField DEF CollectionKinds, Store!CollectionFields
  <2> QED
    BY <2>1, <2>2 DEF Swapped
<1>12. Restored("Account")
  <2>1. \A m, c, f : Under("Account", m, c, f) =>
           <<c, f>> \in {<<"CertificateCollection", "certificates">>}
    <3> DEFINE R == [Certificates |-> <<"CertificateCollection", "certificates">>]
    <3>1. Children["Account"] = R
      BY DEF Children
    <3>2. \A m, c, f : Under("Account", m, c, f) => m \in DOMAIN R /\ R[m] = <<c, f>>
      <4> HIDE DEF R
      <4> QED
        BY <3>1 DEF Under
    <3> QED
      BY <3>2
  <2>2. /\ Store!InjectedField("CertificateCollection", "Account") = "certificates"
    BY CollectionField DEF CollectionKinds, Store!CollectionFields
  <2> QED
    BY <2>1, <2>2 DEF Swapped
<1>13. Restored("LogService")
  <2>1. \A m, c, f : Under("LogService", m, c, f) =>
           <<c, f>> \in {<<"LogEntryCollection", "entry">>}
    <3> DEFINE R == [Entries |-> <<"LogEntryCollection", "entry">>]
    <3>1. Children["LogService"] = R
      BY DEF Children
    <3>2. \A m, c, f : Under("LogService", m, c, f) => m \in DOMAIN R /\ R[m] = <<c, f>>
      <4> HIDE DEF R
      <4> QED
        BY <3>1 DEF Under
    <3> QED
      BY <3>2
  <2>2. /\ Store!InjectedField("LogEntryCollection", "LogService") = "entry"
    BY CollectionField DEF CollectionKinds, Store!CollectionFields
  <2> QED
    BY <2>1, <2>2 DEF Swapped
<1>14. Restored("Storage")
  <2>1. \A m, c, f : Under("Storage", m, c, f) =>
           <<c, f>> \in {<<"DriveCollection", "drives">>,
                       <<"StorageControllerList", "controller">>,
                       <<"VolumeCollection", "volumes">>}
    <3> DEFINE R == [StorageControllers |-> <<"StorageControllerList", "controller">>,
                     Drives |-> <<"DriveCollection", "drives">>,
                     Volumes |-> <<"VolumeCollection", "volumes">>]
    <3>1. Children["Storage"] = R
      BY DEF Children
    <3>2. \A m, c, f : Under("Storage", m, c, f) => m \in DOMAIN R /\ R[m] = <<c, f>>
      <4> HIDE DEF R
      <4> QED
        BY <3>1 DEF Under
    <3> QED
      BY <3>2
  <2>2. /\ Store!InjectedField("DriveCollection", "Storage") = "drives"
        /\ Store!InjectedField("VolumeCollection", "Storage") = "volumes"
    BY CollectionField DEF CollectionKinds, Store!CollectionFields
  <2>3. /\ Store!InjectedField("StorageControllerList", "Storage") = "controller"
    BY ObjectField DEF Store!ObjectFields
  <2> QED
    BY <2>1, <2>2, <2>3 DEF Swapped
<1>15. Restored("Thermal")
  <2>1. \A m, c, f : Under("Thermal", m, c, f) =>
           <<c, f>> \in {<<"FanList", "fans">>,
                       <<"TemperatureList", "temperatures">>}
    <3> DEFINE R == [Temperatures |-> <<"TemperatureList", "temperatures">>,
                     Fans |-> <<"FanList", "fans">>]
    <3>1. Children["Thermal"] = R
      BY DEF Children
    <3>2. \A m, c, f : Under("Thermal", m, c, f) => m \in DOMAIN R /\ R[m] = <<c, f>>
      <4> HIDE DEF R
      <4> QED
        BY <3>1 DEF Under
    <3> QED
      BY <3>2
  <2>2. /\ Store!InjectedField("FanList", "Thermal") = "fans"
        /\ Store!InjectedField("TemperatureList", "Thermal") = "temperatures"
    BY ObjectField DEF Store!ObjectFields
  <2> QED
    BY <2>1, <2>2 DEF Swapped
<1>16. Restored("Power")
  <2>1. \A m, c, f : Under("Power", m, c, f) =>
           <<c, f>> \in {<<"PowerControlList", "power_control">>,
                       <<"PowerSupplyList", "power_supplies">>,
                       <<"VoltageList", "voltages">>}
    <3> DEFINE R == [PowerControl |-> <<"PowerControlList", "power_control">>,
                     Voltages |-> <<"VoltageList", "voltages">>,
                     PowerSupplies |-> <<"PowerSupplyList", "power_supplies">>]
    <3>1. Children["Power"] = R
      BY DEF Children
    <3>2. \A m, c, f : Under("Power", m, c, f) => m \in DOMAIN R /\ R[m] = <<c, f>>
      <4> HIDE DEF R
      <4> QED
        BY <3>1 DEF Under
    <3> QED
      BY <3>2
  <2>2. /\ Store!InjectedField("PowerControlList", "Power") = "power_control"
        /\ Store!InjectedField("PowerSupplyList", "Power") = "power_supplies"
        /\ Store!InjectedField("VoltageList", "Power") = "voltages"
    BY ObjectField DEF Store!ObjectFields
  <2> QED
    BY <2>1, <2>2 DEF Swapped
<1>17. Restored("StorageCollection")
  BY <1>1 DEF Children, Of, MemberKinds
<1>18. Restored("StorageControllerList")
  BY <1>1 DEF Children, Of, MemberKinds
<1>19. Restored("DriveCollection")
  BY <1>1 DEF Children, Of, MemberKinds
<1>20. Restored("VolumeCollection")
  BY <1>1 DEF Children, Of, MemberKinds
<1>21. Restored("ProcessorCollection")
  BY <1>1 DEF Children, Of, MemberKinds
<1>22. Restored("MemoryCollection")
  BY <1>1 DEF Children, Of, MemberKinds
<1>23. Restored("EthernetInterfaceCollection")
  BY <1>1 DEF Children, Of, MemberKinds
<1>24. Restored("LogServiceCollection")
  BY <1>1 DEF Children, Of, MemberKinds
<1>25. Restored("LogEntryCollection")
  BY <1>1 DEF Children, Of, MemberKinds
<1>26. Restored("SimpleStorageCollection")
  BY <1>1 DEF Children, Of, MemberKinds
<1>27. Restored("SensorCollection")
  BY <1>1 DEF Children, Of, MemberKinds
<1>28. Restored("TemperatureList")
  BY <1>1 DEF Children, Of, MemberKinds
<1>29. Restored("FanList")
  BY <1>1 DEF Children, Of, MemberKinds
<1>30. Restored("PowerControlList")
  BY <1>1 DEF Children, Of, MemberKinds
<1>31. Restored("VoltageList")
  BY <1>1 DEF Children, Of, MemberKinds
<1>32. Restored("PowerSupplyList")
  BY <1>1 DEF Children, Of, MemberKinds
<1>33. Restored("FirmwareInventoryCollection")
  BY <1>1 DEF Children, Of, MemberKinds
<1>34. Restored("EventDestinationCollection")
  BY <1>1 DEF Children, Of, MemberKinds
<1>35. Restored("RoleCollection")
  BY <1>1 DEF Children, Of, MemberKinds
<1>36. Restored("AccountCollection")
  BY <1>1 DEF Children, Of, MemberKinds
<1> HIDE DEF Restored
<1>37. k \in {"ServiceRoot", "Systems", "Chassis", "Manager", "UpdateService", "TaskService",
           "EventService", "CertificateService", "AccountService", "SessionService", "Account",
           "LogService", "Storage", "Thermal", "Power", "StorageCollection",
           "StorageControllerList", "DriveCollection", "VolumeCollection", "ProcessorCollection",
           "MemoryCollection", "EthernetInterfaceCollection", "LogServiceCollection",
           "LogEntryCollection", "SimpleStorageCollection", "SensorCollection", "TemperatureList",
           "FanList", "PowerControlList", "VoltageList", "PowerSupplyList",
           "FirmwareInventoryCollection", "EventDestinationCollection", "RoleCollection",
           "AccountCollection"}
  BY DEF Under, Children
<1>38. Restored(k)
  BY <1>2, <1>3, <1>4, <1>5, <1>6, <1>7, <1>8, <1>9, <1>10, <1>11, <1>12, <1>13, <1>14, <1>15,
     <1>16, <1>17, <1>18, <1>19, <1>20, <1>21, <1>22, <1>23, <1>24, <1>25, <1>26, <1>27, <1>28,
     <1>29, <1>30, <1>31, <1>32, <1>33, <1>34, <1>35, <1>36, <1>37
<1> QED
  BY <1>38 DEF Restored

-----------------------------------------------------------------------------
(* The record store while no kill did damage: what was removed stays away, *)
(* a start finds everything else and puts it together as the first did.    *)

\* What the constructor of ServiceRoot asks g_record for.
Top == {<<>>, Store!RegistryUri} \cup {Append(<<>>, n) : n \in Services}

Rest == Store!AllUris \ s_removed

\* The objects are connected like the first start, or the load, connects them.
Connected ==
    s_links = {l \in (IF s_loaded THEN {Store!Exchanged(k) : k \in Store!Links(Store!FullTree)}
                      ELSE Store!Links(Store!FullTree)) : l[2] \notin s_removed}

\* Whose parent was removed was removed too, but for the certificates of accounts.
RemovedBelow ==
    \A u \in Store!AllUris \ {<<>>} :
        Store!Parent(u) \in s_removed => u \in s_removed \/ Store!Kind[Store!Parent(u)] = "Account"

\* Memory and files have what was not removed, or nothing was written yet.
StoreWhole ==
    s_gone = {} =>
        /\ s_torn = {} /\ s_removed \subseteq Store!AllUris \ Top /\ RemovedBelow
        /\ s_pc = "down" => s_saved = Rest \/ (s_saved = {} /\ s_removed = {})
        /\ s_pc = "saving" => Store!Written = Rest /\ s_saved \in {Rest, {}} /\ Connected
        /\ s_pc = "up" => s_mem = Rest /\ s_saved = Rest /\ Connected
        /\ s_pc = "failed" => \E u \in s_removed : Store!Kind[u] = "Account"

\* The service root is in the tree.
LEMMA RootIs ==
    /\ Root \in Store!FullTree /\ Root.uri = <<>> /\ Root.kind = "ServiceRoot"
    /\ <<>> \in Store!AllUris /\ Store!Kind[<<>>] = "ServiceRoot"
<1>1. Root \in Store!FullTree
  BY DEF Root, Store!FullTree, Store!ServiceRoot
<1>2. Root.uri = <<>> /\ Root.kind = "ServiceRoot"
  BY DEF Root
<1> QED
  BY <1>1, <1>2, KindOf

\* So are the services, at its top.
LEMMA TopIsThere == \A u \in Top : u \in Store!AllUris /\ Len(u) <= 1
<1>1. <<>> \in Store!AllUris /\ Len(<<>>) <= 1
  BY RootIs
<1>2. Store!RegistryUri \in Store!AllUris /\ Len(Store!RegistryUri) <= 1
  <2> DEFINE r == [uri |-> Store!RegistryUri, kind |-> "MessageRegistry", field |-> "none"]
  <2>1. r \in Store!FullTree /\ r.uri = Store!RegistryUri
    BY DEF Store!FullTree, Store!init_message_registry
  <2>2. Len(Store!RegistryUri) = 1
    BY DEF Store!RegistryUri
  <2> HIDE DEF r
  <2> QED
    BY <2>1, <2>2 DEF Store!AllUris, Store!Uris
<1>3. ASSUME NEW n \in Services PROVE Append(<<>>, n) \in Store!AllUris /\ Len(Append(<<>>, n)) <= 1
  <2>1. \E kind, field, below :
           Store!Missing({}, <<>>, n, kind, field, below) \subseteq Store!ServiceRoot({})
    <3>1. CASE n = "Systems"
      BY <3>1, Zenon DEF Store!ServiceRoot
    <3>2. CASE n = "Chassis"
      BY <3>2, Zenon DEF Store!ServiceRoot
    <3>3. CASE n = "Managers"
      BY <3>3, Zenon DEF Store!ServiceRoot
    <3>4. CASE n = "UpdateService"
      BY <3>4, Zenon DEF Store!ServiceRoot
    <3>5. CASE n = "TaskService"
      BY <3>5, Zenon DEF Store!ServiceRoot
    <3>6. CASE n = "EventService"
      BY <3>6, Zenon DEF Store!ServiceRoot
    <3>7. CASE n = "CertificateService"
      BY <3>7, Zenon DEF Store!ServiceRoot
    <3>8. CASE n = "AccountService"
      BY <3>8, Zenon DEF Store!ServiceRoot
    <3>9. CASE n = "SessionService"
      BY <3>9, Zenon DEF Store!ServiceRoot
    <3> QED
      BY <3>1, <3>2, <3>3, <3>4, <3>5, <3>6, <3>7, <3>8, <3>9 DEF Services
  <2>2. \A kind, field, below :
           [uri |-> Append(<<>>, n), kind |-> kind, field |-> field]
               \in Store!Missing({}, <<>>, n, kind, field, below)
    BY DEF Store!Missing, Store!Rec
  <2>3. PICK r \in Store!ServiceRoot({}) : r.uri = Append(<<>>, n)
    <3>1. PICK kind, field :
             [uri |-> Append(<<>>, n), kind |-> kind, field |-> field] \in Store!ServiceRoot({})
      BY <2>1, <2>2, Zenon
    <3>2. [uri |-> Append(<<>>, n), kind |-> kind, field |-> field].uri = Append(<<>>, n)
      OBVIOUS
    <3> QED
      BY <3>1, <3>2, Zenon
  <2>4. Len(Append(<<>>, n)) <= 1
    OBVIOUS
  <2> QED
    BY <2>3, <2>4 DEF Store!AllUris, Store!FullTree, Store!Uris
<1> QED
  BY <1>1, <1>2, <1>3 DEF Top

\* With the services loaded the constructor of ServiceRoot makes nothing.
LEMMA NothingMissing ==
    ASSUME NEW have, Top \subseteq have
    PROVE  Store!ServiceRoot(have) = {Root}
<1>1. \A n \in Services : Append(<<>>, n) \in have
  BY DEF Top
<1>2. \A n \in Services : \A kind, field, below : Store!Missing(have, <<>>, n, kind, field, below) = {}
  BY <1>1 DEF Store!Missing
<1> QED
  BY <1>2, Zenon DEF Store!ServiceRoot, Services, Root

\* Accounts, subscriptions and log services are below a collection.
LEMMA DeepKinds ==
    ASSUME NEW u \in Store!AllUris, Store!Kind[u] \in {"Account", "EventDestination", "LogService"}
    PROVE  u # <<>> /\ Len(u) \in Nat /\ Len(u) >= 2
<1>1. u # <<>>
  BY RootIs
<1>2. PICK f : Under(Store!Kind[Store!Parent(u)], LastName(u), Store!Kind[u], f)
  BY <1>1, UriIs
<1>3. Store!Parent(u) \in Store!AllUris /\ Len(u) = Len(Store!Parent(u)) + 1
  BY <1>1, UriIs
<1>4. Store!Parent(u) # <<>>
  <2>1. ~Under("ServiceRoot", LastName(u), Store!Kind[u], f)
    BY DEF Under, Children
  <2> QED
    BY <1>2, <2>1, RootIs
<1>5. Store!Parent(u) \in Seq(Names)
  BY <1>3, UriIs
<1> QED
  BY <1>1, <1>3, <1>4, <1>5

\* A subscription has nothing below it.
LEMMA NothingBelowDestination ==
    ASSUME NEW u \in Store!AllUris, u # <<>>
    PROVE  Store!Kind[Store!Parent(u)] # "EventDestination"
<1>1. \A n, kind, f : ~Under("EventDestination", n, kind, f)
  BY DEF Under, Children
<1> QED
  BY <1>1, UriIs

\* What the load makes of one record's link.
LEMMA LinkIsRestored ==
    ASSUME NEW r \in Store!FullTree
    PROVE  /\ Store!Exchanged(<<r.field, r.uri>>) = <<Swapped(r.field), r.uri>>
           /\ Store!InjectedField(Store!Kind[r.uri], Store!Kind[Store!Parent(r.uri)]) = Swapped(r.field)
           /\ Swapped(r.field) = "none" <=> r.field = "none"
<1>1. Store!Exchanged(<<r.field, r.uri>>) = <<Swapped(r.field), r.uri>>
  BY DEF Store!Exchanged, Swapped
<1>2. Swapped(r.field) = "none" <=> r.field = "none"
  BY DEF Swapped
<1>3. Store!Kind[r.uri] = r.kind
  BY KindOf
<1>4. CASE r = Root
  <2>1. "ServiceRoot" \in DOMAIN Store!ObjectFields /\ Store!ObjectFields["ServiceRoot"] = "root"
    BY DEF Store!ObjectFields
  <2>2. r.kind = "ServiceRoot" /\ Swapped(r.field) = "root"
    BY <1>4 DEF Root, Swapped
  <2> QED
    BY <1>1, <1>2, <1>3, <2>1, <2>2, ObjectField
<1>5. CASE r # Root
  <2>1. PICK q \in Store!FullTree :
           q.uri = Store!Parent(r.uri) /\ Under(q.kind, LastName(r.uri), r.kind, r.field)
    BY <1>5, ParentRecord
  <2>2. Store!Kind[Store!Parent(r.uri)] = q.kind
    BY <2>1, KindOf
  <2>3. Store!InjectedField(r.kind, q.kind) = Swapped(r.field)
    BY <2>1, FieldIsRestored
  <2> QED
    BY <1>1, <1>2, <1>3, <2>2, <2>3
<1> QED
  BY <1>4, <1>5

\* What it makes of all.
LEMMA LinksOfLoad ==
    ASSUME NEW S \in SUBSET Store!AllUris
    PROVE  {l \in {<<Store!InjectedField(Store!Kind[u], Store!Kind[Store!Parent(u)]), u>> : u \in S} :
                l[1] # "none"}
           = {l \in {Store!Exchanged(k) : k \in Store!Links(Store!FullTree)} : l[2] \in S}
<1> DEFINE made == {<<Store!InjectedField(Store!Kind[u], Store!Kind[Store!Parent(u)]), u>> : u \in S}
           first == {Store!Exchanged(k) : k \in Store!Links(Store!FullTree)}
<1>1. ASSUME NEW l \in made, l[1] # "none" PROVE l \in first /\ l[2] \in S
  <2>1. PICK u \in S : l = <<Store!InjectedField(Store!Kind[u], Store!Kind[Store!Parent(u)]), u>>
    OBVIOUS
  <2>2. PICK r \in Store!FullTree : r.uri = u
    BY DEF Store!AllUris, Store!Uris
  <2>3. l = Store!Exchanged(<<r.field, r.uri>>) /\ l[1] = Swapped(r.field) /\ l[2] = u
    BY <2>1, <2>2, LinkIsRestored
  <2>4. <<r.field, r.uri>> \in Store!Links(Store!FullTree)
    BY <1>1, <2>3, LinkIsRestored DEF Store!Links
  <2> QED
    BY <2>3, <2>4
<1>2. ASSUME NEW l \in first, l[2] \in S PROVE l \in made /\ l[1] # "none"
  <2>1. PICK r \in Store!FullTree : r.field # "none" /\ l = Store!Exchanged(<<r.field, r.uri>>)
    BY DEF Store!Links
  <2>2. l = <<Swapped(r.field), r.uri>> /\ l[1] # "none" /\ r.uri \in S
    BY <1>2, <2>1, LinkIsRestored
  <2>3. l = <<Store!InjectedField(Store!Kind[r.uri], Store!Kind[Store!Parent(r.uri)]), r.uri>>
    BY <2>2, LinkIsRestored
  <2> QED
    BY <2>2, <2>3
<1> QED
  BY <1>1, <1>2

\* Nothing is written or removed at the beginning.
LEMMA StoreInitWhole == Store!Init => StoreWhole
BY DEF Store!Init, StoreWhole, RemovedBelow

\* A first start makes the whole tree; another one finds all that was not
\* removed, makes nothing, and fails only on certificates without their account.
LEMMA StartWhole == StoreWhole /\ Store!Start => StoreWhole'
<1> SUFFICES ASSUME StoreWhole, Store!Start, s_gone' = {} PROVE StoreWhole'
  BY DEF StoreWhole
<1>1. s_pc = "down" /\ UNCHANGED <<s_saved, s_torn, s_gone, s_removed>>
      /\ s_loaded' = (<<>> \in Store!Scanned)
  BY DEF Store!Start
<1>2. /\ s_torn = {} /\ s_removed \subseteq Store!AllUris \ Top /\ RemovedBelow
      /\ s_saved = Rest \/ (s_saved = {} /\ s_removed = {})
  BY <1>1 DEF StoreWhole
<1>3. Store!Scanned = s_saved /\ Rest' = Rest /\ (RemovedBelow' <=> RemovedBelow)
  BY <1>1, <1>2 DEF Store!Scanned, Rest, RemovedBelow
<1>4. Top \subseteq Rest /\ <<>> \in Rest /\ Store!RegistryUri \in Rest
  BY <1>2, TopIsThere DEF Rest, Top
<1>5. CASE s_saved = {}
  <2>1. s_removed = {} /\ Rest = Store!AllUris
    BY <1>2, <1>4, <1>5 DEF Rest
  <2>2. /\ s_pc' = "saving" /\ s_mem' = Store!Uris(Store!ServiceRoot({}))
        /\ s_links' = Store!Links(Store!ServiceRoot({})) /\ s_loaded' = FALSE
    <3>1. Store!Scanned = {}
      BY <1>3, <1>5
    <3>2. Store!FirstTree
      BY <3>1 DEF Store!Start
    <3>3. s_loaded' = FALSE
      <4>1. (<<>> \in Store!Scanned) = FALSE
        BY <3>1
      <4> QED
        BY <1>1, <4>1
    <3> QED
      BY <3>2, <3>3 DEF Store!FirstTree
  <2>3. Store!Written' = Store!AllUris
    <3> DEFINE reg == [uri |-> Store!RegistryUri, kind |-> "MessageRegistry", field |-> "none"]
    <3>1. reg.uri = Store!RegistryUri
      OBVIOUS
    <3>2. Store!FullTree = Store!ServiceRoot({}) \cup {reg}
      BY Zenon DEF Store!FullTree, Store!init_message_registry
    <3> HIDE DEF reg
    <3>3. Store!AllUris = Store!Uris(Store!ServiceRoot({})) \cup {Store!RegistryUri}
      BY <3>1, <3>2 DEF Store!AllUris, Store!Uris
    <3> QED
      BY <2>2, <3>3 DEF Store!Written
  <2>4. Store!Links(Store!ServiceRoot({})) = Store!Links(Store!FullTree)
    BY DEF Store!Links, Store!FullTree, Store!init_message_registry
  <2>5. Connected'
    BY <1>1, <2>1, <2>2, <2>4 DEF Connected
  <2> QED
    BY <1>1, <1>2, <1>3, <1>5, <2>1, <2>2, <2>3, <2>5 DEF StoreWhole
<1>6. CASE s_saved # {}
  <2>1. s_saved = Rest /\ s_loaded' = TRUE
    BY <1>1, <1>2, <1>3, <1>4, <1>6
  <2> DEFINE files == Store!Scanned
             rooted == <<>> \in s_saved
             made == IF rooted
                     THEN {r \in Store!ServiceRoot(files) : r.uri \notin files} ELSE {}
             read == {u \in files : u \in s_saved}
  <2>2. files = Rest /\ read = Rest /\ rooted
    BY <1>3, <1>4, <2>1
  <2>3. made = {}
    <3>1. Store!ServiceRoot(files) = {Root}
      BY <1>4, <2>2, NothingMissing
    <3> QED
      BY <1>4, <2>2, <3>1, RootIs
  <2>4. Store!Uris(made) = {} /\ files \cup Store!Uris(made) = Rest /\ files \ read = {}
    BY <2>2, <2>3 DEF Store!Uris
  <2>5. Store!LoadJson
    BY <1>3, <1>6 DEF Store!Start
  <2>6. IF Store!Orphans(Rest, Rest) # {}
        THEN s_pc' = "failed"
        ELSE /\ s_pc' = "saving" /\ s_mem' = Rest
             /\ s_links' = {l \in {<<Store!InjectedField(Store!Kind[u], Store!Kind[Store!Parent(u)]), u>> :
                                       u \in Rest} : l[1] # "none"}
    <3>1. PICK met \in {{}, made} :
             LET injected == read \cup Store!Uris(met)
                 known == files \cup Store!Uris(made)
             IN IF Store!Orphans(injected, known) # {}
                THEN /\ s_pc' = "failed"
                     /\ UNCHANGED <<s_mem, s_freed, s_links>>
                ELSE /\ \/ s_pc' = "saving"
                        \/ files # read /\ s_pc' = "failed"
                     /\ s_mem' = (read \cup Store!Uris(made)) \ Store!Uris(met)
                     /\ s_freed' = files \ read
                     /\ s_links' = {l \in Store!Links(made) : l[2] \notin injected}
                                 \cup {l \in {<<Store!InjectedField(Store!Kind[u],
                                     Store!Kind[Store!Parent(u)]), u>> :
                                                  u \in injected} :
                                          l[1] # "none" /\ Store!Parent(l[2]) \notin files \ read}
      BY <2>5, Zenon DEF Store!LoadJson
    <3>2. met = {} /\ Store!Uris(met) = {} /\ Store!Links(made) = {}
      BY <2>3, <3>1 DEF Store!Uris, Store!Links
    <3> HIDE DEF made, files, read
    <3>3. read \cup Store!Uris(met) = Rest /\ files \cup Store!Uris(made) = Rest /\ files \ read = {}
          /\ files = read
      BY <2>2, <2>4, <3>2
    <3>4. IF Store!Orphans(Rest, Rest) # {}
          THEN s_pc' = "failed"
          ELSE /\ s_pc' = "saving"
               /\ s_mem' = Rest \ Store!Uris(met)
               /\ s_links' = {l \in Store!Links(made) : l[2] \notin Rest}
                             \cup {l \in {<<Store!InjectedField(Store!Kind[u],
                                 Store!Kind[Store!Parent(u)]), u>> :
                                              u \in Rest} :
                                      l[1] # "none" /\ Store!Parent(l[2]) \notin {}}
      BY <2>2, <2>4, <3>1, <3>2, <3>3
    <3> QED
      BY <3>2, <3>4
  <2>7. CASE Store!Orphans(Rest, Rest) # {}
    <3>1. PICK u \in Rest : u # <<>> /\ Store!Parent(u) \notin Rest
      BY <2>7 DEF Store!Orphans
    <3>2. Store!Parent(u) \in Store!AllUris
      BY <3>1, UriIs DEF Rest
    <3>3. Store!Parent(u) \in s_removed /\ Store!Kind[Store!Parent(u)] = "Account"
      BY <1>2, <3>1, <3>2 DEF Rest, RemovedBelow
    <3> QED
      BY <1>1, <1>2, <1>3, <2>6, <2>7, <3>3 DEF StoreWhole
  <2>8. CASE Store!Orphans(Rest, Rest) = {}
    <3>1. s_pc' = "saving" /\ s_mem' = Rest
      BY <2>6, <2>8
    <3>2. s_links' = {l \in {Store!Exchanged(k) : k \in Store!Links(Store!FullTree)} : l[2] \in Rest}
      BY <2>6, <2>8, LinksOfLoad DEF Rest
    <3>3. \A k \in Store!Links(Store!FullTree) : Store!Exchanged(k)[2] \in Store!AllUris
      <4>1. ASSUME NEW r \in Store!FullTree PROVE Store!Exchanged(<<r.field, r.uri>>)[2] \in Store!AllUris
        <5>1. Store!Exchanged(<<r.field, r.uri>>) = <<Swapped(r.field), r.uri>> /\ r.uri \in Store!AllUris
          BY LinkIsRestored, KindOf
        <5> QED
          BY <5>1
      <4>2. ASSUME NEW k \in Store!Links(Store!FullTree)
            PROVE  \E r \in Store!FullTree : k = <<r.field, r.uri>>
        BY DEF Store!Links
      <4> QED
        BY <4>1, <4>2, Zenon
    <3>4. Connected'
      BY <1>1, <2>1, <3>2, <3>3 DEF Connected, Rest
    <3>5. Store!Written' = Rest
      BY <1>4, <3>1 DEF Store!Written
    <3> QED
      BY <1>1, <1>2, <1>3, <2>1, <3>1, <3>4, <3>5 DEF StoreWhole
  <2> QED
    BY <2>7, <2>8
<1> QED
  BY <1>5, <1>6

\* The end of the save, and kills that take nothing.
LEMMA SavesWhole ==
    StoreWhole /\ (Store!SaveJson \/ Store!KillInSave \/ Store!KillUp \/ Store!KillInClear) => StoreWhole'
<1> SUFFICES ASSUME StoreWhole, s_gone' = {},
                    Store!SaveJson \/ Store!KillInSave \/ Store!KillUp \/ Store!KillInClear
             PROVE  StoreWhole'
  BY DEF StoreWhole
<1>1. s_gone = {} /\ s_removed' = s_removed /\ s_loaded' = s_loaded
  BY DEF Store!SaveJson, Store!KillInSave, Store!KillUp, Store!KillInClear
<1>2. /\ s_torn = {} /\ s_removed \subseteq Store!AllUris \ Top /\ RemovedBelow
      /\ Rest' = Rest /\ (RemovedBelow' <=> RemovedBelow)
  BY <1>1 DEF StoreWhole, Rest, RemovedBelow
<1>3. CASE Store!SaveJson
  <2>1. /\ s_pc = "saving" /\ s_pc' = "up" /\ s_mem' = Store!Written /\ s_saved' = Store!Written
        /\ s_torn' \subseteq s_torn /\ s_links' = s_links
    BY <1>3 DEF Store!SaveJson
  <2>2. Store!Written = Rest /\ Connected
    BY <1>1, <2>1 DEF StoreWhole
  <2>3. Connected'
    BY <1>1, <2>1, <2>2 DEF Connected
  <2> QED
    BY <1>1, <1>2, <2>1, <2>2, <2>3 DEF StoreWhole
<1>4. CASE Store!KillInSave
  <2>1. PICK c \in Store!Cuts :
           /\ s_saved' = (s_saved \cup (Store!Written \ c.cut)) \ c.half
           /\ s_torn' = (s_torn \ (Store!Written \ c.cut)) \cup c.half
           /\ s_gone' = s_gone \cup (c.cut \ s_saved) \cup c.half
    BY <1>4 DEF Store!KillInSave
  <2>2. s_pc = "saving" /\ s_pc' = "down" /\ c.half = {} /\ c.cut \subseteq s_saved
    BY <1>4, <2>1 DEF Store!KillInSave
  <2>3. Store!Written = Rest /\ s_saved \in {Rest, {}}
    BY <1>1, <2>2 DEF StoreWhole
  <2>4. s_saved' = Rest /\ s_torn' = {}
    BY <1>2, <2>1, <2>2, <2>3
  <2> QED
    BY <1>1, <1>2, <2>2, <2>4 DEF StoreWhole
<1>5. CASE Store!KillUp
  <2>1. s_pc = "up" /\ s_pc' = "down" /\ s_saved' = s_saved /\ s_torn' = s_torn
    BY <1>5 DEF Store!KillUp
  <2>2. s_saved = Rest
    BY <1>1, <2>1 DEF StoreWhole
  <2> QED
    BY <1>1, <1>2, <2>1, <2>2 DEF StoreWhole
<1>6. CASE Store!KillInClear
  <2>1. s_pc = "up" /\ s_pc' = "down" /\ s_saved' = s_saved /\ s_torn' = s_torn
    BY <1>6 DEF Store!KillInClear
  <2>2. s_saved = Rest
    BY <1>1, <2>1 DEF StoreWhole
  <2> QED
    BY <1>1, <1>2, <2>1, <2>2 DEF StoreWhole
<1> QED
  BY <1>3, <1>4, <1>5, <1>6

\* Memory, files and links lose the same uris, and nothing is left below them
\* that a start could not take.
LEMMA DroppedWhole ==
    ASSUME StoreWhole, s_gone = {}, s_pc = "up", NEW U, U \subseteq s_mem, U \cap Top = {},
           Store!Dropped(U, U),
           \A u \in s_mem \ {<<>>} :
               Store!Parent(u) \in U => u \in U \/ Store!Kind[Store!Parent(u)] = "Account"
    PROVE  StoreWhole'
<1>1. /\ s_torn = {} /\ s_removed \subseteq Store!AllUris \ Top /\ RemovedBelow
      /\ s_mem = Rest /\ s_saved = Rest /\ Connected
  BY DEF StoreWhole
<1>2. /\ s_mem' = s_mem \ U /\ s_saved' = s_saved \ U /\ s_torn' = s_torn \ U
      /\ s_links' = {l \in s_links : l[2] \notin U} /\ s_removed' = s_removed \cup U
      /\ s_pc' = s_pc /\ s_loaded' = s_loaded /\ s_gone' = s_gone
  BY DEF Store!Dropped
<1>3. Rest' = Rest \ U
  BY <1>2 DEF Rest
<1>4. Connected'
  BY <1>1, <1>2 DEF Connected
<1>5. RemovedBelow'
  <2> SUFFICES ASSUME NEW u \in Store!AllUris \ {<<>>}, Store!Parent(u) \in s_removed'
               PROVE  u \in s_removed' \/ Store!Kind[Store!Parent(u)] = "Account"
    BY DEF RemovedBelow
  <2>1. CASE u \in s_removed
    BY <1>2, <2>1
  <2>2. CASE u \notin s_removed
    BY <1>1, <1>2, <2>2 DEF Rest, RemovedBelow
  <2> QED
    BY <2>1, <2>2
<1>6. s_removed' \subseteq Store!AllUris \ Top
  BY <1>1, <1>2 DEF Rest
<1> QED
  BY <1>1, <1>2, <1>3, <1>4, <1>5, <1>6 DEF StoreWhole

\* A child of what is below a uri is below it too.
LEMMA BelowIsClosed ==
    ASSUME NEW e \in Seq(Names), NEW u \in Store!AllUris, u # <<>>, NEW S,
           Store!Parent(u) \in Store!Below(S, e), u \in S
    PROVE  u \in Store!Below(S, e)
<1> DEFINE p == Store!Parent(u)
           n == LastName(u)
<1>1. p \in Seq(Names) /\ n \in Names /\ u = Append(p, n)
  BY UriIs
<1>2. Len(e) <= Len(p) /\ SubSeq(e, 1, Len(e)) = SubSeq(p, 1, Len(e))
  BY DEF Store!Below, Store!IsPrefix
<1> HIDE DEF p, n
<1>3. Len(e) <= Len(Append(p, n)) /\ SubSeq(Append(p, n), 1, Len(e)) = SubSeq(p, 1, Len(e))
  BY <1>1, <1>2
<1> QED
  BY <1>1, <1>2, <1>3 DEF Store!Below, Store!IsPrefix

\* Requests that remove records.
LEMMA RemovalsWhole ==
    StoreWhole /\ (Store!RemoveAccount \/ Store!RemoveSubscription \/ Store!ClearLog) => StoreWhole'
<1> SUFFICES ASSUME StoreWhole, s_gone' = {},
                    Store!RemoveAccount \/ Store!RemoveSubscription \/ Store!ClearLog
             PROVE  StoreWhole'
  BY DEF StoreWhole
<1>1. s_gone = {} /\ s_pc = "up"
  BY DEF Store!RemoveAccount, Store!RemoveSubscription, Store!ClearLog, Store!Dropped
<1>2. s_mem = Rest
  BY <1>1 DEF StoreWhole
<1>3. CASE Store!RemoveAccount \/ Store!RemoveSubscription
  <2>1. PICK u \in s_mem : Store!Kind[u] \in {"Account", "EventDestination"} /\ Store!Dropped({u}, {u})
    BY <1>3 DEF Store!RemoveAccount, Store!RemoveSubscription
  <2>2. u \in Store!AllUris
    BY <1>2, <2>1 DEF Rest
  <2>3. u \notin Top
    BY <2>1, <2>2, DeepKinds, TopIsThere
  <2>4. ASSUME NEW v \in s_mem \ {<<>>}, Store!Parent(v) = u PROVE Store!Kind[u] = "Account"
    BY <1>2, <2>1, <2>4, NothingBelowDestination DEF Rest
  <2> QED
    BY <1>1, <2>1, <2>3, <2>4, DroppedWhole
<1>4. CASE Store!ClearLog
  <2>1. PICK u \in Store!Clearable : Store!Dropped(Store!Cleared(u), Store!Cleared(u))
    BY <1>4 DEF Store!ClearLog, Store!ClearedFiles
  <2> DEFINE e == Append(u, "Entries")
             U == Store!Cleared(u)
  <2>2. u \in Store!AllUris /\ Store!Kind[u] = "LogService"
    BY <1>2, <2>1 DEF Store!Clearable, Rest
  <2>3. u \in Seq(Names) /\ Len(u) >= 2
    BY <2>2, UriIs, DeepKinds
  <2>4. e \in Seq(Names) /\ Len(e) >= 3
    <3>1. Under("LogService", "Entries", "LogEntryCollection", "entry")
      BY DEF Under, Children
    <3>2. "Entries" \in Names
      BY <3>1, Zenon DEF Under, Names
    <3> QED
      BY <2>3, <3>2, AppendProperties
  <2>5. U = Store!Below(s_mem, e) /\ U \subseteq s_mem
    BY DEF Store!Cleared, Store!Below
  <2> HIDE DEF e, U
  <2>6. U \cap Top = {}
    <3>1. ASSUME NEW v \in U PROVE v \notin Top
      <4>1. Len(e) <= Len(v)
        BY <2>5 DEF Store!Below, Store!IsPrefix
      <4>2. v \in Seq(Names)
        BY <1>2, <2>5, UriIs DEF Rest
      <4> QED
        BY <2>4, <4>1, <4>2, TopIsThere
    <3> QED
      BY <3>1
  <2>7. ASSUME NEW v \in s_mem \ {<<>>}, Store!Parent(v) \in U PROVE v \in U
    BY <1>2, <2>4, <2>5, <2>7, BelowIsClosed DEF Rest
  <2> QED
    BY <1>1, <2>1, <2>5, <2>6, <2>7, DroppedWhole DEF U
<1> QED
  BY <1>3, <1>4

\* StoreWhole holds in every state of the component.
THEOREM StoreStaysWhole == Spec => [](focus = "store" => StoreWhole)
<1>1. Init => (focus = "store" => StoreWhole)
  BY StoreInitWhole DEF Init
<1>2. (focus = "store" => StoreWhole) /\ [Next]_mcVars => (focus = "store" => StoreWhole)'
  <2>1. UNCHANGED <<focus, storeVars>> /\ StoreWhole => StoreWhole'
    BY DEF storeVars, StoreWhole, Rest, RemovedBelow, Connected, Store!Written
  <2>2. StoreWhole /\ Store!Next => StoreWhole'
    BY StartWhole, SavesWhole, RemovalsWhole DEF Store!Next
  <2> QED
    BY <2>1, <2>2 DEF Next, mcVars
<1> QED
  BY <1>1, <1>2, PTL DEF Spec, mcVars

\* A start fails only on files a kill damaged, or on the certificates of an
\* account that was removed: dependency_injection finds every other parent.
THEOREM StartsFailOnlyOnDamage == Spec => []StartFailsOnlyOnDamage
<1>1. StoreWhole => Store!StartFailsOnlyOnDamage
  BY DEF StoreWhole, Store!StartFailsOnlyOnDamage
<1> QED
  BY <1>1, StoreStaysWhole, PTL DEF StartFailsOnlyOnDamage

\* Accounts, subscriptions and log entries that a request removed are not in
\* memory again after any number of restarts that find every other file.
THEOREM RemovedRecordsStayRemoved == Spec => []RemovedStaysRemoved
<1>1. StoreWhole => Store!RemovedStaysRemoved
  BY DEF StoreWhole, Rest, Store!RemovedStaysRemoved
<1> QED
  BY <1>1, StoreStaysWhole, PTL DEF RemovedStaysRemoved

\* Whatever the first start puts in a member of its parent object a restart puts
\* there too, but for the two inventories it exchanges: for every set of network
\* interfaces, disks and users.
THEOREM RestartsRestoreLinks == Spec => []LinksAreRestored
<1>1. StoreWhole => Store!LinksAreRestored
  BY DEF StoreWhole, Connected, Store!LinksAreRestored
<1> QED
  BY <1>1, StoreStaysWhole, PTL DEF LinksAreRestored
=============================================================================
