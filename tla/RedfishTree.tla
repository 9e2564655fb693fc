----------------------------- MODULE RedfishTree -----------------------------
(***************************************************************************)
(* The resources of the Redfish server: which records the init_* functions *)
(* of KETI-Edge/init.cpp make under which uri, in which member of the      *)
(* parent object they put them, and in which member dependency_injection   *)
(* of libs/redfish/record.cpp puts a record it has loaded from its file.   *)
(*                                                                         *)
(* A uri is the sequence of its names after /redfish/v1.  The kind of a    *)
(* collection or list says what it collects: the code tells them apart by  *)
(* @odata.type, by MemberType, and the two inventories by their Name.      *)
(* "have" is the set of uris g_record holds when a function runs.          *)
(***************************************************************************)
EXTENDS Sequences, SequencesExt, FiniteSets

CONSTANTS
    Nics,   \* names of the Ethernet interfaces ifconfig lists
    Disks,  \* names of the block devices lsblk lists
    Users   \* numbers (as names) of the IPMI users at the first start

Rec(p, name, kind, field) ==
    {[uri |-> Append(p, name), kind |-> kind, field |-> field]}

\* if (!record_is_exist(uri)) { make the record and what is below it }
Missing(have, p, name, kind, field, below) ==
    IF Append(p, name) \in have THEN {} ELSE Rec(p, name, kind, field) \cup below

Member(p, name, kind) == Rec(p, name, kind, "members")

Parent(u) == Front(u)
Below(uris, u) == {v \in uris : IsPrefix(u, v)}

-----------------------------------------------------------------------------
(* Computer system.                                                        *)

init_storage_controller(p, disk) == Member(p, disk, "StorageControllers")
init_drive(p, id)                == Member(p, id, "Drive")
init_volume(p, id)               == Member(p, id, "Volume")
init_processor(p, id)            == Member(p, id, "Processors")
init_memory(p, id)               == Member(p, id, "Memory")
init_ethernet(p, nic)            == Member(p, nic, "EthernetInterfaces")
init_simple_storage(p, id)       == Member(p, id, "SimpleStorage")
init_log_entry(p, id)            == Member(p, id, "LogEntry")

init_storage(have, s) ==
    Missing(have, s, "StorageControllers", "StorageControllerList", "controller",
            UNION {init_storage_controller(Append(s, "StorageControllers"), d) : d \in Disks})
    \cup Missing(have, s, "Drives", "DriveCollection", "drives",
                 init_drive(Append(s, "Drives"), "0"))
    \cup Missing(have, s, "Volumes", "VolumeCollection", "volumes",
                 init_volume(Append(s, "Volumes"), "0"))

init_storage_collection(have, p, id) ==
    Member(p, id, "Storage") \cup init_storage(have, Append(p, id))

init_log_service(have, p, id) ==
    Member(p, id, "LogService")
    \cup Missing(have, Append(p, id), "Entries", "LogEntryCollection", "entry",
                 init_log_entry(p \o <<id, "Entries">>, "0"))

init_system(have, s) ==
    Missing(have, s, "Storage", "StorageCollection", "storage",
            init_storage_collection(have, Append(s, "Storage"), "1"))
    \cup Missing(have, s, "Processors", "ProcessorCollection", "processor",
                 init_processor(Append(s, "Processors"), "CPU1"))
    \cup Missing(have, s, "Memory", "MemoryCollection", "memory",
                 init_memory(Append(s, "Memory"), "DIMM1"))
    \cup Missing(have, s, "EthernetInterfaces", "EthernetInterfaceCollection", "ethernet",
                 UNION {init_ethernet(Append(s, "EthernetInterfaces"), n) : n \in Nics})
    \cup Missing(have, s, "LogServices", "LogServiceCollection", "log_service",
                 init_log_service(have, Append(s, "LogServices"), "Log1"))
    \cup Missing(have, s, "SimpleStorage", "SimpleStorageCollection", "simple_storage",
                 init_simple_storage(Append(s, "SimpleStorage"), "0"))
    \cup Missing(have, s, "Bios", "Bios", "bios", {})

-----------------------------------------------------------------------------
(* Chassis.                                                                *)

init_sensor(have, p, id)    == Missing(have, p, id, "Sensor", "members", {})
init_temperature(p, id)     == Member(p, id, "Temperature")
init_fan(p, id)             == Member(p, id, "Fan")
init_power_control(p, id)   == Member(p, id, "PowerControl")
init_voltage(p, id)         == Member(p, id, "Voltage")
init_power_supply(p, id)    == Member(p, id, "PowerSupply")

init_thermal(have, t) ==
    Missing(have, t, "Temperatures", "TemperatureList", "temperatures",
            UNION {init_temperature(Append(t, "Temperatures"), id) : id \in {"0", "1"}})
    \cup Missing(have, t, "Fans", "FanList", "fans",
                 UNION {init_fan(Append(t, "Fans"), id) : id \in {"0", "1"}})

init_power(have, p) ==
    Missing(have, p, "PowerControl", "PowerControlList", "power_control",
            init_power_control(Append(p, "PowerControl"), "0"))
    \cup Missing(have, p, "Voltages", "VoltageList", "voltages",
                 init_voltage(Append(p, "Voltages"), "0"))
    \cup Missing(have, p, "PowerSupplies", "PowerSupplyList", "power_supplies",
                 init_power_supply(Append(p, "PowerSupplies"), "0"))

init_chassis(have, c) ==
    Missing(have, c, "Sensors", "SensorCollection", "sensors",
            init_sensor(have, Append(c, "Sensors"), "CabinetTemp"))
    \cup Missing(have, c, "Thermal", "Thermal", "thermal",
                 init_thermal(have, Append(c, "Thermal")))
    \cup Missing(have, c, "Storage", "StorageCollection", "storage",
                 init_storage_collection(have, Append(c, "Storage"), "1"))
    \cup Missing(have, c, "Power", "Power", "power",
                 init_power(have, Append(c, "Power")))
    \cup Missing(have, c, "LogServices", "LogServiceCollection", "log_service",
                 init_log_service(have, Append(c, "LogServices"), "Log1"))

-----------------------------------------------------------------------------
(* Manager and services.                                                   *)

init_manager(have, m) ==
    Rec(m, "NetworkProtocol", "NetworkProtocol", "network")
    \cup Missing(have, m, "EthernetInterfaces", "EthernetInterfaceCollection", "ethernet",
                 UNION {init_ethernet(Append(m, "EthernetInterfaces"), n) : n \in Nics})
    \cup Missing(have, m, "LogServices", "LogServiceCollection", "log_service",
                 init_log_service(have, Append(m, "LogServices"), "Log1"))
    \cup Missing(have, m, "VirtualMedia", "VirtualMediaCollection", "virtual_media", {})
    \cup Missing(have, m, "Radius", "Radius", "radius", {})

init_software_inventory(p, id) == Member(p, id, "SoftwareInventory")

init_update_service(have, s) ==
    Missing(have, s, "FirmwareInventory", "FirmwareInventoryCollection", "firmware_inventory",
            UNION {init_software_inventory(Append(s, "FirmwareInventory"), id) :
                       id \in {"CMM", "WEB", "HA"}})
    \cup Missing(have, s, "SoftwareInventory", "SoftwareInventoryCollection",
                 "software_inventory", {})

init_task_service(have, s) ==
    Missing(have, s, "Tasks", "TaskCollection", "task_collection", {})

init_event_destination(have, p, id) == Missing(have, p, id, "EventDestination", "members", {})

init_event_service(have, s) ==
    Missing(have, s, "Subscriptions", "EventDestinationCollection", "subscriptions",
            init_event_destination(have, Append(s, "Subscriptions"), "1"))

\* One account for each IPMI user, each with a collection of certificates.
init_account_service(have, s) ==
    Missing(have, s, "Roles", "RoleCollection", "role_collection",
            UNION {Member(Append(s, "Roles"), r, "Role") :
                       r \in {"Administrator", "Operator", "ReadOnly"}})
    \cup Missing(have, s, "Accounts", "AccountCollection", "account_collection",
                 UNION {Member(Append(s, "Accounts"), a, "Account")
                        \cup Rec(s \o <<"Accounts", a>>, "Certificates",
                                 "CertificateCollection", "certificates") : a \in Users})

init_session_service(have, s) ==
    Missing(have, s, "Sessions", "SessionCollection", "session_collection", {})

\* The constructor: every service g_record does not know, with what is below it.
ServiceRoot(have) ==
    {[uri |-> <<>>, kind |-> "ServiceRoot", field |-> "root"]}
    \cup Missing(have, <<>>, "Systems", "Systems", "system",
                 init_system(have, <<"Systems">>))
    \cup Missing(have, <<>>, "Chassis", "Chassis", "chassis",
                 init_chassis(have, <<"Chassis">>))
    \cup Missing(have, <<>>, "Managers", "Manager", "manager",
                 init_manager(have, <<"Managers">>))
    \cup Missing(have, <<>>, "UpdateService", "UpdateService", "update_service",
                 init_update_service(have, <<"UpdateService">>))
    \cup Missing(have, <<>>, "TaskService", "TaskService", "task_service",
                 init_task_service(have, <<"TaskService">>))
    \cup Missing(have, <<>>, "EventService", "EventService", "event_service",
                 init_event_service(have, <<"EventService">>))
    \cup Missing(have, <<>>, "CertificateService", "CertificateService", "certificate_service",
                 Rec(<<"CertificateService">>, "CertificateLocations",
                     "CertificateLocation", "certificate_location"))
    \cup Missing(have, <<>>, "AccountService", "AccountService", "account_service",
                 init_account_service(have, <<"AccountService">>))
    \cup Missing(have, <<>>, "SessionService", "SessionService", "session_service",
                 init_session_service(have, <<"SessionService">>))

RegistryUri == <<"MessageRegistry">>

\* Made anew at every start, whatever the files hold.
init_message_registry ==
    {[uri |-> RegistryUri, kind |-> "MessageRegistry", field |-> "none"]}

-----------------------------------------------------------------------------
(* The records of a first start, and how a restart puts them together.     *)

Uris(recs)  == {r.uri : r \in recs}
Links(recs) == {<<r.field, r.uri>> : r \in {x \in recs : x.field # "none"}}

FullTree == ServiceRoot({}) \cup init_message_registry
AllUris  == Uris(FullTree)
Kind     == [u \in AllUris |-> (CHOOSE r \in FullTree : r.uri = u).kind]

\* dependency_injection, case COLLECTION_TYPE: by the parent and what is collected.
CollectionFields ==
    [Systems |-> [ProcessorCollection |-> "processor", StorageCollection |-> "storage",
                  MemoryCollection |-> "memory", EthernetInterfaceCollection |-> "ethernet",
                  LogServiceCollection |-> "log_service",
                  SimpleStorageCollection |-> "simple_storage"],
     Chassis |-> [SensorCollection |-> "sensors", LogServiceCollection |-> "log_service",
                  StorageCollection |-> "storage"],
     Manager |-> [EthernetInterfaceCollection |-> "ethernet",
                  LogServiceCollection |-> "log_service",
                  VirtualMediaCollection |-> "virtual_media"],
     LogService |-> [LogEntryCollection |-> "entry"],
     TaskService |-> [TaskCollection |-> "task_collection"],
     SessionService |-> [SessionCollection |-> "session_collection"],
     AccountService |-> [AccountCollection |-> "account_collection",
                         RoleCollection |-> "role_collection"],
     Account |-> [CertificateCollection |-> "certificates"],
     NetworkProtocol |-> [CertificateCollection |-> "certificates"],
     EventService |-> [EventDestinationCollection |-> "subscriptions"],
     \* by name, and each name into the member of the other
     UpdateService |-> [SoftwareInventoryCollection |-> "firmware_inventory",
                        FirmwareInventoryCollection |-> "software_inventory"],
     Storage |-> [DriveCollection |-> "drives", VolumeCollection |-> "volumes"]]

\* The cases of single objects and of lists.
ObjectFields ==
    [AccountService |-> "account_service", SessionService |-> "session_service",
     TaskService |-> "task_service", CertificateService |-> "certificate_service",
     EventService |-> "event_service", UpdateService |-> "update_service",
     Systems |-> "system", Chassis |-> "chassis", Manager |-> "manager",
     Bios |-> "bios", Thermal |-> "thermal", Power |-> "power",
     NetworkProtocol |-> "network", Radius |-> "radius",
     CertificateLocation |-> "certificate_location",
     StorageControllerList |-> "controller", TemperatureList |-> "temperatures",
     FanList |-> "fans", PowerControlList |-> "power_control",
     VoltageList |-> "voltages", PowerSupplyList |-> "power_supplies",
     ServiceRoot |-> "root", MessageRegistry |-> "none"]

Collections == UNION {DOMAIN CollectionFields[h] : h \in DOMAIN CollectionFields}

\* Variant with a bug: no branch for the collections of the chassis.
InjectedFieldNoChassis(kind, parent) ==
    IF kind \in Collections
    THEN IF /\ parent \in DOMAIN CollectionFields \ {"Chassis"}
            /\ kind \in DOMAIN CollectionFields[parent]
         THEN CollectionFields[parent][kind] ELSE "none"
    ELSE IF kind \in DOMAIN ObjectFields THEN ObjectFields[kind] ELSE "members"

InjectedField(kind, parent) ==
    IF kind \in Collections
    THEN IF /\ parent \in DOMAIN CollectionFields
            /\ kind \in DOMAIN CollectionFields[parent]
         THEN CollectionFields[parent][kind] ELSE "none"
    ELSE IF kind \in DOMAIN ObjectFields THEN ObjectFields[kind] ELSE "members"
=============================================================================
