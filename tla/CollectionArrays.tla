-------------------------- MODULE CollectionArrays --------------------------
(***************************************************************************)
(* The arrays of src/collections.c: a vector, and a dictionary that is     *)
(* searched from its first entry.  Both keep their elements in the first   *)
(* size cells of a block of capacity cells; the cells beyond hold whatever *)
(* calloc, realloc or an earlier element left there.  Cells count from 0.  *)
(*                                                                         *)
(* The server uses the vector for its file names (server_files, through    *)
(* add_file_to_list and remove_file_from_list) and the dictionary for its  *)
(* connections (fd_to_client).  The strings the vector's cells point to    *)
(* are the names themselves.                                               *)
(***************************************************************************)
EXTENDS Integers

CONSTANTS
  Name,              \* file names
  Key,               \* descriptor numbers
  Value,             \* what they lead to (client_t pointers)
  NULL,              \* the null pointer, and the zeroed bytes of calloc
  Garbage,           \* what realloc leaves in the cells it adds
  INITIAL_CAPACITY,
  GROWTH_FACTOR,
  ReallocFails       \* whether realloc may fail in this instance

ASSUME ArraysAssumption ==
  /\ INITIAL_CAPACITY \in Nat \ {0}
  /\ GROWTH_FACTOR \in Nat \ {0, 1}
  /\ ReallocFails \in BOOLEAN
  /\ NULL \notin Value

VARIABLES
  server_files,      \* a vector of names
  fd_to_client,      \* a dictionary from Key to Value
  call               \* the last call, and whether it ran out of memory

vars == <<server_files, fd_to_client, call>>

Entry == [key : Key, value : Value]

Used(a) == 0..(a.size - 1)          \* the cells that hold elements

-----------------------------------------------------------------------------
(***************************************************************************)
(* Blocks of memory.                                                       *)
(***************************************************************************)
calloc(n) == [i \in 0..(n - 1) |-> NULL]

realloc(block, n) ==
  [i \in 0..(n - 1) |-> IF i \in DOMAIN block THEN block[i] ELSE Garbage]

(* A slip: one cell too few is moved.                                      *)
OneTooFew(block, n, to, from) ==
  [i \in DOMAIN block |->
     IF i - to \in 0..(n - 2) THEN block[i - to + from] ELSE block[i]]

memmove(block, n, to, from) ==
  [i \in DOMAIN block |->
     IF i - to \in 0..(n - 1) THEN block[i - to + from] ELSE block[i]]

array_create ==
  [cells |-> calloc(INITIAL_CAPACITY), size |-> 0, capacity |-> INITIAL_CAPACITY]

Grown(a) ==
  LET next_capacity == a.capacity * GROWTH_FACTOR IN
  [a EXCEPT !.cells = realloc(@, next_capacity), !.capacity = next_capacity]

Stored(a, element) ==
  [a EXCEPT !.cells[a.size] = element, !.size = @ + 1]

(* ok: whether a realloc made by this call succeeds.  If it does not, the  *)
(* call returns with nothing stored.                                       *)
Extended(a, element, ok) ==
  IF a.size # a.capacity THEN Stored(a, element)
  ELSE IF ok THEN Stored(Grown(a), element)
  ELSE a

Without(a, position) ==
  [a EXCEPT !.cells = memmove(@, a.size - position - 1, position, position + 1),
            !.size = @ - 1]

-----------------------------------------------------------------------------
(***************************************************************************)
(* The vector.                                                             *)
(***************************************************************************)
vector_create == array_create

vector_size(v) == v.size

vector_get(v, n) == IF n >= v.size THEN NULL ELSE v.cells[n]

vector_push_back(v, element, ok) == Extended(v, element, ok)

vector_erase(v, position) == IF position >= v.size THEN v ELSE Without(v, position)

(* The server's searches, cell by cell up to the first name that matches.  *)
Match(v, name) ==
  {i \in 0..(vector_size(v) - 1) :
     /\ vector_get(v, i) = name
     /\ \A j \in 0..(i - 1) : vector_get(v, j) # name}

add_file_to_list(v, name, ok) ==
  IF Match(v, name) # {} THEN v ELSE vector_push_back(v, name, ok)

remove_file_from_list(v, name) ==
  IF Match(v, name) = {} THEN v
  ELSE vector_erase(v, CHOOSE i \in Match(v, name) : TRUE)

-----------------------------------------------------------------------------
(***************************************************************************)
(* The dictionary.                                                         *)
(***************************************************************************)
dictionary_create == array_create

(* A slip: the search looks at every cell of the block.                    *)
FoundAnywhere(d, key) ==
  {i \in DOMAIN d.cells : d.cells[i] \in Entry /\ d.cells[i].key = key}

Found(d, key) ==
  {i \in Used(d) :
     /\ d.cells[i].key = key
     /\ \A j \in 0..(i - 1) : d.cells[j].key # key}

dictionary_set(d, key, value, ok) ==
  IF Found(d, key) # {}
    THEN [d EXCEPT !.cells[CHOOSE i \in Found(d, key) : TRUE].value = value]
    ELSE Extended(d, [key |-> key, value |-> value], ok)

dictionary_get(d, key) ==
  IF Found(d, key) = {} THEN NULL
  ELSE d.cells[CHOOSE i \in Found(d, key) : TRUE].value

dictionary_remove(d, key) ==
  IF Found(d, key) = {} THEN d
  ELSE Without(d, CHOOSE i \in Found(d, key) : TRUE)

-----------------------------------------------------------------------------
(***************************************************************************)
(* The calls the server makes, in any order.                               *)
(***************************************************************************)
(* What realloc may do for a call on a, if the call makes one at all.      *)
Outcome(a) == IF ReallocFails /\ a.size = a.capacity THEN BOOLEAN ELSE {TRUE}

AddFile(name) ==
  /\ \E ok \in IF Match(server_files, name) = {} THEN Outcome(server_files)
                                                ELSE {TRUE} :
       /\ server_files' = add_file_to_list(server_files, name, ok)
       /\ call' = <<"add", name, ok>>
  /\ UNCHANGED fd_to_client

RemoveFile(name) ==
  /\ server_files' = remove_file_from_list(server_files, name)
  /\ call' = <<"erase", name>>
  /\ UNCHANGED fd_to_client

SetClient(key, value) ==
  /\ \E ok \in IF Found(fd_to_client, key) = {} THEN Outcome(fd_to_client)
                                                ELSE {TRUE} :
       /\ fd_to_client' = dictionary_set(fd_to_client, key, value, ok)
       /\ call' = <<"set", key, value, ok>>
  /\ UNCHANGED server_files

RemoveClient(key) ==
  /\ fd_to_client' = dictionary_remove(fd_to_client, key)
  /\ call' = <<"remove", key>>
  /\ UNCHANGED server_files

Init ==
  /\ server_files = vector_create
  /\ fd_to_client = dictionary_create
  /\ call = <<"create">>

Next ==
  \/ \E name \in Name : AddFile(name) \/ RemoveFile(name)
  \/ \E key \in Key : RemoveClient(key) \/ \E value \in Value : SetClient(key, value)

Spec == Init /\ [][Next]_vars

-----------------------------------------------------------------------------
(***************************************************************************)
(* What the arrays promise.                                                *)
(***************************************************************************)
ArrayType(a, Element) ==
  /\ a.size \in Nat /\ a.capacity \in Nat \ {0}
  /\ a.size <= a.capacity
  /\ DOMAIN a.cells = 0..(a.capacity - 1)
  /\ \A i \in Used(a) : a.cells[i] \in Element

(* No name and no key is stored twice, whatever is removed and stored      *)
(* again: the searches stop at the first match (collections.c:156-161,     *)
(* server.c:261-263).                                                      *)
ArraysOK ==
  /\ ArrayType(server_files, Name)
  /\ \A i, j \in Used(server_files) :
       server_files.cells[i] = server_files.cells[j] => i = j
  /\ ArrayType(fd_to_client, Entry)
  /\ \A i, j \in Used(fd_to_client) :
       fd_to_client.cells[i].key = fd_to_client.cells[j].key => i = j

(* The arrays implement a list of names and a map from descriptors to      *)
(* clients, call by call: what follows the last element, how the block has *)
(* grown and where an element was moved never shows, and a call stores     *)
(* nothing only if the block was full and could not grow                   *)
(* (collections.c:65-98, 150-211).                                         *)
Abstract ==
  INSTANCE AbstractCollections WITH
    list <- [i \in 1..server_files.size |-> server_files.cells[i - 1]],
    map  <- [key \in Key |-> dictionary_get(fd_to_client, key)]

ArraysImplement == Abstract!Spec

=============================================================================
