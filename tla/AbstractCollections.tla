------------------------ MODULE AbstractCollections ------------------------
(***************************************************************************)
(* What the server takes its two collections for: a list of file names     *)
(* that grows at its end (the sequences of Collections), and a map from    *)
(* descriptor numbers to clients.  CollectionArrays implements both; the   *)
(* other modules use them as they are here.                                *)
(***************************************************************************)
EXTENDS Collections, FiniteSets

CONSTANTS Name, Key, Value, NULL

VARIABLES list, map, call

vars == <<list, map, call>>

Mapped == {key \in Key : map[key] # NULL}

Init == list = <<>> /\ map = [key \in Key |-> NULL] /\ call = <<"create">>

AddFile(name) ==
  /\ list' = add_file_to_list(list, name)
  /\ call' = <<"add", name, TRUE>>
  /\ UNCHANGED map

RemoveFile(name) ==
  /\ list' = remove_file_from_list(list, name)
  /\ call' = <<"erase", name>>
  /\ UNCHANGED map

SetClient(key, value) ==
  /\ map' = [map EXCEPT ![key] = value]
  /\ call' = <<"set", key, value, TRUE>>
  /\ UNCHANGED list

RemoveClient(key) ==
  /\ map' = [map EXCEPT ![key] = NULL]
  /\ call' = <<"remove", key>>
  /\ UNCHANGED list

(* Memory runs out only for a call that has something new to store.  The   *)
(* server is not told.                                                     *)
Dropped ==
  /\ \/ \E name \in Name : name \notin Listed(list) /\ call' = <<"add", name, FALSE>>
     \/ \E key \in Key \ Mapped, value \in Value :
          call' = <<"set", key, value, FALSE>>
  /\ UNCHANGED <<list, map>>

Next ==
  \/ \E name \in Name : AddFile(name) \/ RemoveFile(name)
  \/ \E key \in Key : RemoveClient(key) \/ \E value \in Value : SetClient(key, value)
  \/ Dropped

Spec == Init /\ [][Next]_vars

=============================================================================
