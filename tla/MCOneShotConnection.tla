------------------------ MODULE MCOneShotConnection ------------------------
(* Constants of the TLC run of OneShotConnection.                          *)
EXTENDS OneShotConnection

(* Success, the two codes with a text of their own, any other.             *)
Codes == {CODE_SUCCESS, DEVICE_ERR, PARSE_RESPONSE_ERROR, 500}

(* No configuration, a complete one, an extended one that lacks a name.    *)
NoFile == [exists |-> FALSE, names |-> {}]
Full   == [exists |-> TRUE, names |-> ConfigName]
Disks  == {[ext |-> NoFile, base |-> NoFile], [ext |-> NoFile, base |-> Full],
           [ext |-> [Full EXCEPT !.names = {"bundle"}], base |-> Full]}

(* Calls share nothing but the thread: once one is made the other is not.  *)
OneIsMade ==
  \A c, d \in Call : result'[c] # "none" /\ result'[d] # "none" => c = d
=============================================================================
