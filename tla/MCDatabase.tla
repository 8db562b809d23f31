----------------------------- MODULE MCDatabase -----------------------------
(* Instances of Database for TLC.                                          *)
EXTENDS Database

CONSTANT o1

(* No id is the encoded key of another one.                                *)
PlainIds == [o \in Orders |-> Blank]
=============================================================================
