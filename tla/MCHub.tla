-------------------------------- MODULE MCHub --------------------------------
(* Small instances of Hub: two services, a handful of requests.            *)
EXTENDS HubRefinement, TLC

CONSTANTS c1, c2, c3  \* connections
CONSTANTS Good, Bad   \* executables: the one every client runs, and another

A == <<"com", "a">>
B == <<"com", "b">>
Monitor == <<"krossbar", "monitor">>
MCNames == {A, B}
MCNamesAndMonitor == {A, B, Monitor}
MCPrivileged == {Monitor}

MCSections   == {"com", "a", "b", "krossbar", "monitor", "*", "**", ""}
MCAsterisked == {"*", "**"}

register(n) == [endpoint |-> "register", body |-> [kind |-> "register", service_name |-> n]]
connect(n, w) ==
  [endpoint |-> "connect", body |-> [kind |-> "connect", service_name |-> n, wait |-> w]]
elsewhere(r) == [r EXCEPT !.endpoint = "other"]
malformed(e) == [endpoint |-> e, body |-> [kind |-> "malformed"]]
not_a_call(e) == [endpoint |-> e, body |-> [kind |-> "not_a_call"]]

(* A service that others wait for, and the two ways of asking for it.      *)
CoreRequests == {register(A), register(B), connect(A, TRUE)}

(* Everything a client may get wrong, and the privileged monitor.          *)
OddRequests ==
  {register(A), register(B), register(Monitor), connect(A, TRUE),
   elsewhere(register(A)), elsewhere(connect(A, FALSE)),
   malformed("connect"), not_a_call("connect")}

MCTwo == {c1, c2}
MCThree == {c1, c2, c3}
AllGood == [c \in Conns |-> Good]

file(incoming) == [exec |-> {Good}, incoming_connections |-> incoming]
Everybody == file(<<<<"**">>>>)

(* One directory; everybody may connect to both services.                  *)
OpenDir == <<[n \in Names |-> Everybody]>>
MCOpenOnly == {OpenDir}

(* Two directories, and what an administrator may do to the file of A:     *)
(* grant by pattern, leave a file that does not open in front of one that  *)
(* does, leave one that does not parse, give the name to another           *)
(* executable and spoil its list, move it to the second directory, remove  *)
(* it.                                                                     *)
Dirs(first, second) ==
  <<[n \in Names |-> IF n = A THEN first ELSE Everybody],
    [n \in Names |-> IF n = A THEN second ELSE NoFile]>>

MCFileSystems ==
  {Dirs(file(<<<<"com", "*">>>>), NoFile),
   Dirs(Unopenable, Everybody),
   Dirs(Broken, Everybody),
   Dirs([exec |-> {Bad}, incoming_connections |-> Invalid], NoFile),
   Dirs(NoFile, Everybody),
   Dirs(NoFile, NoFile)}

SymmetricTwo == Permutations(MCTwo)
Symmetric == Permutations(MCThree)
=============================================================================
