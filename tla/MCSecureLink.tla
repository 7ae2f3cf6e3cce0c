---------------------------- MODULE MCSecureLink ----------------------------
(* SecureLink for model checking.  A header, a tag and the least read are a  *)
(* few bytes, so that frames fit a read, need two, or come two at a time.    *)
EXTENDS SecureLink

ClientTwice == [c |-> 2, s |-> 1]
=============================================================================
