---------------------------- MODULE MCServerPicker ----------------------------
(***************************************************************************)
(* Lists of up to two entries over two servers, an id that is no number and *)
(* an entry without one: the pinned server may be missing, first, last or  *)
(* there twice.                                                            *)
(***************************************************************************)
EXTENDS ServerPicker, SequencesExt

Lists == BoundedSeq(Number \cup Word \cup {None}, 2)
=============================================================================
