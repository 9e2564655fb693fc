---------------------------- MODULE RedfishFields ----------------------------
(***************************************************************************)
(* What a record of the Redfish server keeps: the members of every class   *)
(* of include/redfish/resource.hpp, which of them get_json writes into the *)
(* answer and into the record's file, and which load_json reads back when  *)
(* the server starts again.  A PATCH changes members in memory, key after  *)
(* key, and saves the record before it is answered; a handler that finds a *)
(* bad value half-way answers an error and leaves what it did so far.      *)
(*                                                                         *)
(* One record is followed, of any kind.  A member is named by its JSON key *)
(* (by its C++ name where it is never served) and has one of four values:  *)
(* what the first start gave it, what an answered PATCH gave it, what a    *)
(* refused PATCH left, or what the constructor leaves.  References to other*)
(* records and Actions are not members here: constructors and              *)
(* dependency_injection make them again (see RedfishStore).                *)
(***************************************************************************)
EXTENDS RedfishBounds, Sequences, SequencesExt, FiniteSets, FiniteSetsExt

VARIABLES
    kind,     \* the class of the record
    pc,       \* "up", "saving" (a PATCH was applied), or "down"
    mem,      \* value of each member in memory
    file,     \* value of each member in the record's file
    asked,    \* history: members answered PATCH requests have set
    patches,  \* PATCH requests so far
    starts    \* starts after the first

vars == <<kind, pc, mem, file, asked, patches, starts>>

-----------------------------------------------------------------------------
(* The classes: members; members get_json saves; members load_json restores.*)

Resource == {"Name"}

MessageRegistry == Resource \cup {"Id", "Language", "RegistryPrefix",
    "RegistryVersion", "Messages"}
MessageRegistry_get_json == MessageRegistry
MessageRegistry_load_json == MessageRegistry_get_json \ {"Messages"}

Role == Resource \cup {"Id", "IsPredefined", "AssignedPrivileges"}
Role_get_json == Role
Role_load_json == Role_get_json

Account == Resource \cup {"Id", "Enabled", "Password", "UserName", "Locked",
    "RoleOdataId", "CALLIN", "LINKAUTH", "IPMIMSG", "PRIVILEGE"}
Account_get_json == Account
Account_load_json == Account_get_json

AccountService == Resource \cup {"Id", "Status", "ServiceEnabled",
    "AuthFailureLoggingThreshold", "MinPasswordLength", "MaxPasswordLength",
    "AccountLockoutThreshold", "AccountLockoutDuration",
    "AccountLockoutCounterResetAfter", "AccountLockoutCounterResetEnabled", "LDAP",
    "ActiveDirectory"}
AccountService_get_json == AccountService
AccountService_load_json == AccountService_get_json

LogEntry == Resource \cup {"Id", "EntryType", "Severity", "Created", "SensorNumber",
    "Message", "MessageId", "MessageArgs"}
LogEntry_get_json == LogEntry
LogEntry_load_json == LogEntry_get_json

LogService == Resource \cup {"Id", "Description", "MaxNumberOfRecords",
    "OverWritePolicy", "DateTime", "DateTimeLocalOffset", "ServiceEnabled",
    "LogEntryType", "Status", "entry_count"}
LogService_get_json == LogService \ {"entry_count"}
LogService_load_json == LogService_get_json

EventDestination == Resource \cup {"Id", "Destination", "SubscriptionType",
    "DeliveryRetryPolicy", "Context", "Protocol", "Status"}
EventDestination_get_json == EventDestination
EventDestination_load_json == EventDestination_get_json

EventService == Resource \cup {"Id", "ServiceEnabled", "DeliveryRetryAttempts",
    "DeliveryRetryIntervalSeconds", "ServerSentEventUri", "Status",
    "EventTypesForSubscription", "SSEFilterPropertiesSupported", "SMTP"}
EventService_get_json == EventService
EventService_load_json == EventService_get_json

SoftwareInventory == Resource \cup {"Id", "Updatable", "Manufacturer",
    "ReleaseDate", "Version", "SoftwareId", "LowestSupportedVersion", "Status",
    "UefiDevicePaths"}
SoftwareInventory_get_json == SoftwareInventory
SoftwareInventory_load_json == SoftwareInventory_get_json

UpdateService == Resource \cup {"Id", "ServiceEnabled", "HttpPushUri", "Status"}
UpdateService_get_json == UpdateService
UpdateService_load_json == UpdateService_get_json

Certificate == Resource \cup {"Id", "CertificateString", "CertificateType",
    "Issuer", "Subject", "ValidNotBefore", "ValidNotAfter", "Email", "KeyBitLength",
    "KeyUsage"}
Certificate_get_json == Certificate
Certificate_load_json == Certificate_get_json \ {"Name"}

CertificateLocation == Resource \cup {"Id"}
CertificateLocation_get_json == CertificateLocation
CertificateLocation_load_json == CertificateLocation_get_json

CertificateService == Resource \cup {"Id"}
CertificateService_get_json == CertificateService
CertificateService_load_json == CertificateService_get_json

NetworkProtocol == Resource \cup {"FQDN", "Id", "HostName", "Description", "Status",
    "SNMP", "IPMI", "VirtualMedia", "SSH", "KVMIP", "HTTP", "HTTPS", "NTP",
    "NTPServers", "name", "NTPPort"}
NetworkProtocol_get_json == NetworkProtocol \ {"name", "NTPPort"}
NetworkProtocol_load_json == NetworkProtocol_get_json \ {"SSH", "VirtualMedia"}

EthernetInterfaces == Resource \cup {"Id", "Description", "LinkStatus",
    "PermanentMACAddress", "MACAddress", "SpeedMbps", "AutoNeg", "FullDuplex",
    "MTUSize", "HostName", "FQDN", "IPv6DefaultGateway", "InterfaceEnabled",
    "Status", "NameServers", "DHCPv4", "DHCPv6", "IPv4Addresses", "IPv6Addresses",
    "VLAN", "name"}
EthernetInterfaces_get_json == EthernetInterfaces \ {"name"}
\* Variant with a bug: the load ends before the IPv6 addresses.
EthernetInterfaces_load_jsonShort == EthernetInterfaces_get_json \ {"IPv6Addresses"}

EthernetInterfaces_load_json == EthernetInterfaces_get_json

Radius == Resource \cup {"Id", "RadiusEnabled", "RadiusServer", "RadiusPortNumber",
    "RadiusSecret"}
Radius_get_json == Radius
Radius_load_json == Radius_get_json

Manager == Resource \cup {"Id", "ManagerType", "Description", "FirmwareVersion",
    "DateTime", "DateTimeLocalOffset", "Model", "UUID", "PowerState", "Status",
    "GlobaleEnable", "name"}
Manager_get_json == Manager \ {"name"}
\* GlobaleEnable is read from a value not set yet: the read throws and ends
\* the load before it and Status are restored.
Manager_load_json == Manager_get_json \ {"Status", "GlobaleEnable"}

Task == Resource \cup {"Id", "StartTime", "EndTime", "TaskState", "TaskStatus",
    "Payload"}
Task_get_json == Task
Task_load_json == Task_get_json

TaskService == Resource \cup {"Id", "Status", "ServiceEnabled", "DateTime"}
TaskService_get_json == TaskService
TaskService_load_json == TaskService_get_json

SessionService == Resource \cup {"Id", "Status", "ServiceEnabled", "SessionTimeout"}
SessionService_get_json == SessionService
SessionService_load_json == SessionService_get_json

Session == Resource \cup {"Id", "AccountId", "AuthToken", "_remain_expires_time"}
Session_get_json == Session \ {"_remain_expires_time"}
Session_load_json == Session_get_json

Temperature == Resource \cup {"MemberId", "Status", "SensorNumber",
    "ReadingCelsius", "UpperThresholdNonCritical", "UpperThresholdCritical",
    "UpperThresholdFatal", "LowerThresholdNonCritical", "LowerThresholdCritical",
    "LowerThresholdFatal", "MinReadingRangeTemp", "MaxReadingRangeTemp",
    "PhysicalContext"}
Temperature_get_json == Temperature
Temperature_load_json == Temperature_get_json

Sensor == Resource \cup {"Id", "ReadingType", "ReadingTime", "Reading",
    "ReadingUnits", "ReadingRangeMin", "ReadingRangeMax", "Accuracy", "Precision",
    "SensingInterval", "PhysicalContext", "Status", "Thresholds"}
Sensor_get_json == Sensor
\* Variant with a bug: the load ends before the thresholds.
Sensor_load_jsonShort == Sensor_get_json \ {"Thresholds"}

Sensor_load_json == Sensor_get_json

Fan == Resource \cup {"MemberId", "Status", "SensorNumber", "Reading",
    "ReadingUnits", "UpperThresholdNonCritical", "UpperThresholdCritical",
    "UpperThresholdFatal", "LowerThresholdNonCritical", "LowerThresholdCritical",
    "LowerThresholdFatal", "MinReadingRange", "MaxReadingRange", "PhysicalContext"}
Fan_get_json == Fan
Fan_load_json == Fan_get_json

Thermal == Resource \cup {"Id"}
Thermal_get_json == Thermal
Thermal_load_json == Thermal_get_json

Voltage == Resource \cup {"MemberId", "SensorNumber", "ReadingVolts",
    "UpperThresholdNonCritical", "UpperThresholdCritical", "UpperThresholdFatal",
    "LowerThresholdNonCritical", "LowerThresholdCritical", "LowerThresholdFatal",
    "MinReadingRange", "MaxReadingRange", "PhysicalContext", "Status"}
Voltage_get_json == Voltage
Voltage_load_json == Voltage_get_json

PowerSupply == Resource \cup {"MemberId", "PowerSupplyType", "LineInputVoltageType",
    "LineInputVoltage", "PowerCapacityWatts", "LastPowerOutputWatts", "Model",
    "Manufacturer", "FirmwareVersion", "SerialNumber", "PartNumber",
    "SparePartNumber", "Status", "InputRanges"}
PowerSupply_get_json == PowerSupply
PowerSupply_load_json == PowerSupply_get_json

PowerControl == Resource \cup {"MemberId", "PowerConsumedWatts",
    "PowerRequestedWatts", "PowerAvailableWatts", "PowerCapacityWatts",
    "PowerAllocatedWatts", "Status", "PowerMetrics", "PowerLimit"}
PowerControl_get_json == PowerControl
PowerControl_load_json == PowerControl_get_json \ {"PowerAllocatedWatts"}

Power == Resource \cup {"Id"}
Power_get_json == Power
Power_load_json == Power_get_json

Bios == Resource \cup {"Id", "AttributeRegistry", "Attributes"}
Bios_get_json == Bios
Bios_load_json == Bios_get_json

SimpleStorage == Resource \cup {"Id", "Description", "UefiDevicePath", "Status",
    "Devices", "FileSystem"}
SimpleStorage_get_json == SimpleStorage
SimpleStorage_load_json == SimpleStorage_get_json \ {"FileSystem"}

StorageControllers == Resource \cup {"Id", "Manufacturer", "Model", "SerialNumber",
    "PartNumber", "SpeedGbps", "FirmwareVersion", "Identifiers", "Status",
    "SupportedControllerProtocols", "SupportedDeviceProtocols"}
StorageControllers_get_json == StorageControllers
StorageControllers_load_json == StorageControllers_get_json

Storage == Resource \cup {"Id", "Description", "Status"}
Storage_get_json == Storage
Storage_load_json == Storage_get_json

Drive == Resource \cup {"Id", "AssetTag", "Description", "EncryptionAbility",
    "EncryptionStatus", "HotspareType", "Manufacturer", "MediaType", "Model", "SKU",
    "StatusIndicator", "PartNumber", "Protocol", "Revision", "SerialNumber",
    "BlockSizeBytes", "CapableSpeedGbs", "NegotiatedSpeedGbs",
    "PredictedMediaLifeLeftPercent", "RotationSpeedRPM", "FailurePredicted",
    "Identifiers", "PhysicalLocation", "Status"}
Drive_get_json == Drive
Drive_load_json == Drive_get_json \ {"MediaType", "Identifiers"}

Volume == Resource \cup {"Id", "Description", "RAIDType", "ReadCachePolicy",
    "WriteCachePolicy", "StripSizeBytes", "DisplayName", "BlockSizeBytes",
    "CapacityBytes", "AccessCapabilities", "Status"}
Volume_get_json == Volume
Volume_load_json == Volume_get_json

Processors == Resource \cup {"Id", "Socket", "ProcessorType",
    "ProcessorArchitecture", "InstructionSet", "Manufacturer", "Model",
    "MaxSpeedMHz", "TotalCores", "TotalThreads", "Status", "ProcessorId"}
Processors_get_json == Processors
Processors_load_json == Processors_get_json

Memory == Resource \cup {"Id", "RankCount", "CapacityKiB", "DataWidthBits",
    "BusWidthBits", "ErrorCorrection", "MemoryType", "MemoryDeviceType",
    "BaseModuleType", "Status", "MaxTDPMilliWatts", "MemoryLocation", "MemoryMedia"}
Memory_get_json == Memory
Memory_load_json == Memory_get_json

Systems == Resource \cup {"Id", "SystemType", "AssetTag", "Manufacturer", "Model",
    "SerialNumber", "PartNumber", "Description", "UUID", "HostName", "Status",
    "IndicatorLED", "PowerState", "BiosVersion", "Boot", "name"}
Systems_get_json == Systems \ {"name"}
Systems_load_json == Systems_get_json \ {"BiosVersion"}

Chassis == Resource \cup {"Id", "ChassisType", "Manufacturer", "Model",
    "SerialNumber", "PartNumber", "AssetTag", "PowerState", "IndicatorLED",
    "Status", "Location"}
Chassis_get_json == Chassis
Chassis_load_json == Chassis_get_json

VirtualMedia == Resource \cup {"ConnectedVia", "Id", "Image", "ImageName",
    "UserName", "Password", "Inserted", "WriteProtected", "MediaTypes", "Size",
    "CreateTime"}
VirtualMedia_get_json == VirtualMedia
VirtualMedia_load_json == VirtualMedia_get_json

Members ==
    [MessageRegistry |-> MessageRegistry, Role |-> Role, Account |-> Account,
     AccountService |-> AccountService, LogEntry |-> LogEntry,
     LogService |-> LogService, EventDestination |-> EventDestination,
     EventService |-> EventService, SoftwareInventory |-> SoftwareInventory,
     UpdateService |-> UpdateService, Certificate |-> Certificate,
     CertificateLocation |-> CertificateLocation,
     CertificateService |-> CertificateService, NetworkProtocol |-> NetworkProtocol,
     EthernetInterfaces |-> EthernetInterfaces, Radius |-> Radius,
     Manager |-> Manager, Task |-> Task, TaskService |-> TaskService,
     SessionService |-> SessionService, Session |-> Session,
     Temperature |-> Temperature, Sensor |-> Sensor, Fan |-> Fan, Thermal |-> Thermal,
     Voltage |-> Voltage, PowerSupply |-> PowerSupply, PowerControl |-> PowerControl,
     Power |-> Power, Bios |-> Bios, SimpleStorage |-> SimpleStorage,
     StorageControllers |-> StorageControllers, Storage |-> Storage, Drive |-> Drive,
     Volume |-> Volume, Processors |-> Processors, Memory |-> Memory,
     Systems |-> Systems, Chassis |-> Chassis, VirtualMedia |-> VirtualMedia]

get_json ==
    [MessageRegistry |-> MessageRegistry_get_json, Role |-> Role_get_json,
     Account |-> Account_get_json, AccountService |-> AccountService_get_json,
     LogEntry |-> LogEntry_get_json, LogService |-> LogService_get_json,
     EventDestination |-> EventDestination_get_json,
     EventService |-> EventService_get_json,
     SoftwareInventory |-> SoftwareInventory_get_json,
     UpdateService |-> UpdateService_get_json, Certificate |-> Certificate_get_json,
     CertificateLocation |-> CertificateLocation_get_json,
     CertificateService |-> CertificateService_get_json,
     NetworkProtocol |-> NetworkProtocol_get_json,
     EthernetInterfaces |-> EthernetInterfaces_get_json, Radius |-> Radius_get_json,
     Manager |-> Manager_get_json, Task |-> Task_get_json,
     TaskService |-> TaskService_get_json, SessionService |-> SessionService_get_json,
     Session |-> Session_get_json, Temperature |-> Temperature_get_json,
     Sensor |-> Sensor_get_json, Fan |-> Fan_get_json, Thermal |-> Thermal_get_json,
     Voltage |-> Voltage_get_json, PowerSupply |-> PowerSupply_get_json,
     PowerControl |-> PowerControl_get_json, Power |-> Power_get_json,
     Bios |-> Bios_get_json, SimpleStorage |-> SimpleStorage_get_json,
     StorageControllers |-> StorageControllers_get_json, Storage |-> Storage_get_json,
     Drive |-> Drive_get_json, Volume |-> Volume_get_json,
     Processors |-> Processors_get_json, Memory |-> Memory_get_json,
     Systems |-> Systems_get_json, Chassis |-> Chassis_get_json,
     VirtualMedia |-> VirtualMedia_get_json]

load_json ==
    [MessageRegistry |-> MessageRegistry_load_json, Role |-> Role_load_json,
     Account |-> Account_load_json, AccountService |-> AccountService_load_json,
     LogEntry |-> LogEntry_load_json, LogService |-> LogService_load_json,
     EventDestination |-> EventDestination_load_json,
     EventService |-> EventService_load_json,
     SoftwareInventory |-> SoftwareInventory_load_json,
     UpdateService |-> UpdateService_load_json, Certificate |-> Certificate_load_json,
     CertificateLocation |-> CertificateLocation_load_json,
     CertificateService |-> CertificateService_load_json,
     NetworkProtocol |-> NetworkProtocol_load_json,
     EthernetInterfaces |-> EthernetInterfaces_load_json, Radius |-> Radius_load_json,
     Manager |-> Manager_load_json, Task |-> Task_load_json,
     TaskService |-> TaskService_load_json,
     SessionService |-> SessionService_load_json, Session |-> Session_load_json,
     Temperature |-> Temperature_load_json, Sensor |-> Sensor_load_json,
     Fan |-> Fan_load_json, Thermal |-> Thermal_load_json,
     Voltage |-> Voltage_load_json, PowerSupply |-> PowerSupply_load_json,
     PowerControl |-> PowerControl_load_json, Power |-> Power_load_json,
     Bios |-> Bios_load_json, SimpleStorage |-> SimpleStorage_load_json,
     StorageControllers |-> StorageControllers_load_json,
     Storage |-> Storage_load_json, Drive |-> Drive_load_json,
     Volume |-> Volume_load_json, Processors |-> Processors_load_json,
     Memory |-> Memory_load_json, Systems |-> Systems_load_json,
     Chassis |-> Chassis_load_json, VirtualMedia |-> VirtualMedia_load_json]

Kinds == DOMAIN Members

-----------------------------------------------------------------------------
(* PATCH: the keys a handler looks for, in its order, and those of them     *)
(* whose value it may refuse.                                              *)

Keys(keys, refusable) == [keys |-> keys, refusable |-> refusable]

\* Handlers that check every value before they change a member.
modify_account       == Keys(<<"RoleOdataId", "UserName", "Password">>, {})
modify_role          == Keys(<<"AssignedPrivileges">>, {})
patch_event_service  == Keys(<<"DeliveryRetryAttempts", "DeliveryRetryIntervalSeconds", "ServiceEnabled">>, {})
patch_subscription   == Keys(<<"Context", "DeliveryRetryPolicy">>, {})
patch_fan_mode       == Keys(<<"Reading">>, {})
patch_account_service ==
    Keys(<<"MinPasswordLength", "MaxPasswordLength", "ServiceEnabled",
           "AuthFailureLoggingThreshold", "AccountLockoutThreshold", "AccountLockoutDuration",
           "AccountLockoutCounterResetAfter", "AccountLockoutCounterResetEnabled">>, {})

\* Handlers that refuse nothing.
patch_session_service == Keys(<<"SessionTimeout", "ServiceEnabled">>, {})
patch_manager         == Keys(<<"Description", "DateTime", "DateTimeLocalOffset">>, {})
patch_power_control   == Keys(<<"PowerLimit">>, {})

\* Variant with a bug: the LED is looked at last.
patch_systemLedLast ==
    Keys(<<"Description", "HostName", "AssetTag", "Boot", "IndicatorLED">>, {"IndicatorLED"})

\* Handlers that may refuse a value between two changes.
patch_system  == Keys(<<"IndicatorLED", "Description", "HostName", "AssetTag", "Boot">>, {"IndicatorLED"})
patch_chassis == Keys(<<"IndicatorLED", "AssetTag", "Location">>, {"IndicatorLED"})
patch_network_protocol ==
    Keys(<<"Description", "SNMP", "IPMI", "KVMIP", "HTTP", "HTTPS", "SSH", "NTP", "NTPPort", "NTPServers">>,
         {"NTPServers"})
patch_ethernet_interface ==
    Keys(<<"Description", "HostName", "MACAddress", "MTUSize", "IPv4Addresses", "IPv6Addresses">>,
         {"IPv4Addresses", "IPv6Addresses"})

treat_patch_services ==
    [Account |-> modify_account, Role |-> modify_role, AccountService |-> patch_account_service,
     SessionService |-> patch_session_service, Manager |-> patch_manager,
     NetworkProtocol |-> patch_network_protocol, Fan |-> patch_fan_mode,
     EthernetInterfaces |-> patch_ethernet_interface]

treat_patch_machine ==
    [Systems |-> patch_system, Chassis |-> patch_chassis, PowerControl |-> patch_power_control,
     EventService |-> patch_event_service, EventDestination |-> patch_subscription]

treat_patch ==
    [k \in DOMAIN treat_patch_services \cup DOMAIN treat_patch_machine |->
        IF k \in DOMAIN treat_patch_services THEN treat_patch_services[k] ELSE treat_patch_machine[k]]

\* Bound: a body has one or two of the keys.
Bodies == {b \in SUBSET Range(treat_patch[kind].keys) : Cardinality(b) \in 1 .. 2}

Position(key) == CHOOSE i \in DOMAIN treat_patch[kind].keys : treat_patch[kind].keys[i] = key

Patchable == pc = "up" /\ kind \in DOMAIN treat_patch /\ patches < MaxPatches

\* Every value is good: the members change, then the record is saved.
Patch ==
    /\ Patchable
    /\ \E body \in Bodies :
       /\ mem' = [m \in Members[kind] |-> IF m \in body THEN "new" ELSE mem[m]]
       /\ asked' = asked \cup body
    /\ pc' = "saving" /\ patches' = patches + 1
    /\ UNCHANGED <<kind, file, starts>>

\* What memory keeps of a PATCH with a bad value at key "bad": the keys before
\* it; of a list of NTP servers also the names before the bad one.  A PATCH of
\* the manager's interface goes on with the system's: when that one has no
\* address to change, the first has already changed.
AppliedBefore(body, bad) ==
    {m \in body : Position(m) < Position(bad)}
    \cup (IF kind = "EthernetInterfaces" THEN body ELSE body \cap {"NTPServers"})

RefusedPatch ==
    /\ Patchable
    /\ \E body \in Bodies : \E bad \in body \cap treat_patch[kind].refusable :
       \E applied \in {{m \in body : Position(m) < Position(bad)}, AppliedBefore(body, bad)} :
          mem' = [m \in Members[kind] |-> IF m \in applied THEN "refused" ELSE mem[m]]
    /\ patches' = patches + 1
    /\ UNCHANGED <<kind, pc, file, asked, starts>>

\* resource_save_json
Saved(values) == [m \in get_json[kind] |-> values[m]]

Save ==
    /\ pc = "saving"
    /\ file' = Saved(mem)
    /\ pc' = "up"
    /\ UNCHANGED <<kind, mem, asked, patches, starts>>

\* The process ends; a PATCH it did not answer need not survive.
Kill ==
    /\ pc \in {"up", "saving"} /\ starts < MaxStarts
    /\ pc' = "down"
    /\ asked' = IF pc = "saving" THEN {m \in asked \cap DOMAIN file : file[m] = "new"} ELSE asked
    /\ UNCHANGED <<kind, mem, file, patches, starts>>

\* A start restores the record and writes its file again.  The message
\* registry is made anew in any case.
Start ==
    /\ pc = "down"
    /\ mem' = [m \in Members[kind] |->
                  IF kind = "MessageRegistry" THEN "first"
                  ELSE IF m \in load_json[kind] THEN file[m] ELSE "default"]
    /\ file' = Saved(mem')
    /\ pc' = "up" /\ starts' = starts + 1
    /\ UNCHANGED <<kind, asked, patches>>

Init ==
    /\ kind \in Kinds
    /\ pc = "up"
    /\ mem = [m \in Members[kind] |-> "first"]
    /\ file = Saved(mem)
    /\ asked = {} /\ patches = 0 /\ starts = 0

Next == Patch \/ RefusedPatch \/ Save \/ Kill \/ Start

Spec == Init /\ [][Next]_vars

-----------------------------------------------------------------------------
(* Properties.                                                             *)

\* The members a restart loses: two settings of a PATCH (SSH and NTPPort of
\* the network protocol) and values the first start or the sensors set.
Forgotten ==
    CASE kind = "NetworkProtocol" -> {"SSH", "VirtualMedia", "NTPPort", "name"}
      [] kind = "Manager" -> {"Status", "GlobaleEnable", "name"}
      [] kind = "Systems" -> {"BiosVersion", "name"}
      [] kind = "EthernetInterfaces" -> {"name"}
      [] kind = "Drive" -> {"MediaType", "Identifiers"}
      [] kind = "SimpleStorage" -> {"FileSystem"}
      [] kind = "PowerControl" -> {"PowerAllocatedWatts"}
      [] kind = "Certificate" -> {"Name"}
      [] kind = "LogService" -> {"entry_count"}
      [] kind = "Session" -> {"_remain_expires_time"}
      [] OTHER -> {}

\* Whatever starts and PATCH requests follow, what an answered PATCH set is
\* what the server serves, unless a later refused PATCH has changed it; only
\* SSH and NTPPort are lost by a start.
AnsweredPatchIsKept ==
    pc = "up" => \A m \in asked : mem[m] \in {"new", "refused"} \/ m \in Forgotten

\* A refused PATCH leaves nothing behind, but for the two handlers that go on
\* to a value they may refuse after they have changed others.
RefusedPatchLeavesNothing ==
    \A m \in Members[kind] :
        mem[m] = "refused" =>
            \/ kind = "EthernetInterfaces" /\ m \in Range(patch_ethernet_interface.keys)
            \/ kind = "NetworkProtocol" /\ m \in Range(patch_network_protocol.keys)

\* A start restores every member of every class but the forgotten ones: what
\* get_json writes is what load_json reads.
OnlyForgottenIsLost ==
    pc = "up" /\ starts > 0 => {m \in Members[kind] : mem[m] = "default"} \subseteq Forgotten
=============================================================================
