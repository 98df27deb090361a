----------------------------- MODULE Permissions -----------------------------
(***************************************************************************)
(* What the hub lets a service do (krossbar-hub/src/permissions.rs).       *)
(*                                                                         *)
(* The hub keeps no copy of the service files: every check reads them      *)
(* again.  So each check is an operator of `dirs`, the sequence of service *)
(* directories as they are at that moment, the default one first.  A       *)
(* directory is a function from service names to what is found under       *)
(* <name>.service.                                                         *)
(***************************************************************************)
EXTENDS ServiceNames

CONSTANTS
  NoFile,       \* there is no such file
  Unopenable,   \* the file exists, opening it fails
  Broken,       \* the file opens, but is not readable text or not JSON
  Invalid,      \* a key or an entry that is missing or of the wrong type
  Unreadable,   \* what /proc/<pid>/exe yields for a process that is gone
  PrivilegedServices  \* the monitor and connect tools; {} without the feature

ASSUME FilesAssumption ==
  NoFile # Unopenable /\ Broken \notin {NoFile, Unopenable, Invalid}

(* A parsed service file.  The glob of "exec" is the set of executables it *)
(* matches, "incoming_connections" a sequence of pattern strings.          *)
ServiceFile(execs) ==
  [exec: SUBSET execs \cup {Invalid},
   incoming_connections: Seq(Dotted \cup {Invalid}) \cup {Invalid}]

(* The first directory whose file opens decides, whatever it holds.        *)
parse_service_file_json(dirs, service_name) ==
  LET opened == SelectInSeq(dirs, LAMBDA dir : dir[service_name] \notin {NoFile, Unopenable})
  IN  IF opened = 0 \/ dirs[opened][service_name] = Broken
        THEN Invalid
        ELSE dirs[opened][service_name]

read_allowed_execs(dirs, service_name) ==
  LET json == parse_service_file_json(dirs, service_name)
  IN  IF json = Invalid THEN Invalid ELSE json.exec

check_service_name_allowed(dirs, service_exec, service_name) ==
  LET exec_pattern == read_allowed_execs(dirs, service_name)
  IN  /\ service_exec # Unreadable
      /\ exec_pattern # Invalid
      /\ service_exec \in exec_pattern

(* Seeded bug: only the default directory is looked at.                    *)
check_service_exists_first(dirs, target_service) == dirs[1][target_service] # NoFile

(* A file that exists is enough, it need not open.                         *)
check_service_exists(dirs, target_service) ==
  \E i \in DOMAIN dirs : dirs[i][target_service] # NoFile

(* One entry that is no pattern voids the whole list.                      *)
read_allowed_connections(dirs, service_name) ==
  LET json == parse_service_file_json(dirs, service_name)
  IN  IF \/ json = Invalid
         \/ json.incoming_connections = Invalid
         \/ \E i \in DOMAIN json.incoming_connections :
              LET connection_entry == json.incoming_connections[i]
              IN  connection_entry = Invalid \/ ~pattern_is_valid(connection_entry)
        THEN Invalid
        ELSE json.incoming_connections

is_previleged_service(service_name) == service_name \in PrivilegedServices

check_connection_allowed(dirs, client_service, target_service) ==
  LET patterns == read_allowed_connections(dirs, target_service)
  IN  \/ is_previleged_service(client_service)
      \/ /\ patterns # Invalid
         /\ ~name_is_invalid(client_service)
         /\ \E i \in DOMAIN patterns : matches(patterns[i], client_service)
=============================================================================
