----------------------------- MODULE MCSaveRam -----------------------------
(* SaveRam on one address and two or three words. *)
EXTENDS SaveRam

CONSTANT Saved       \* a word that is neither zero nor blank

MCWord == {Zero, Blank, Saved}
MCFactory == [a \in Addr |-> Saved]

MCBlankFactory == [a \in Addr |-> Blank]
=============================================================================
