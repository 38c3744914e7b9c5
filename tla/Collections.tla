---------------------------- MODULE Collections ----------------------------
(***************************************************************************)
(* The vector of src/collections.c, as the sequence of its elements, and   *)
(* the list of stored file names the server keeps in one (server.c:        *)
(* add_file_to_list, remove_file_from_list).  Positions count from 1, in   *)
(* the C code from 0.                                                      *)
(*                                                                         *)
(* CollectionArrays has the block of cells, its growth and a realloc that  *)
(* fails, and implements this.                                             *)
(***************************************************************************)
EXTENDS Naturals, Sequences

vector_push_back(v, element) == Append(v, element)

vector_erase(v, position) ==
  SubSeq(v, 1, position - 1) \o SubSeq(v, position + 1, Len(v))

-----------------------------------------------------------------------------
(***************************************************************************)
(* The file list: the linear searches of server.c stop at the first match. *)
(***************************************************************************)
Listed(files) == {files[i] : i \in 1..Len(files)}

FirstIndex(files, name) ==
  CHOOSE i \in 1..Len(files) :
    files[i] = name /\ \A j \in 1..(i - 1) : files[j] # name

(* A slip of the search: the name is appended without looking for it.      *)
AddWithoutSearch(files, name) == vector_push_back(files, name)

add_file_to_list(files, name) ==
  IF name \in Listed(files) THEN files ELSE vector_push_back(files, name)

remove_file_from_list(files, name) ==
  IF name \in Listed(files)
    THEN vector_erase(files, FirstIndex(files, name))
    ELSE files

=============================================================================
