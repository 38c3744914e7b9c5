------------------------ MODULE MCCollectionArrays ------------------------
(***************************************************************************)
(* The collections for TLC.  The vector and the dictionary share nothing,  *)
(* so the calls to one are taken while the other is as it was created.     *)
(***************************************************************************)
EXTENDS CollectionArrays

OneAtATime == server_files = vector_create \/ fd_to_client = dictionary_create

MCSpec == Init /\ [][Next /\ OneAtATime']_vars

=============================================================================
