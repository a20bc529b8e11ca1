------------------------------ MODULE NetGroup ------------------------------
(***************************************************************************)
(* conn/INetGroup.cpp and the parts of conn/IGroup.cpp it inherits: the    *)
(* network connections of one endpoint.                                    *)
(*                                                                         *)
(* The group is a set of keys (mConns and mConnMap, which the code asserts *)
(* to have the same size after every change) and the set of those keys     *)
(* whose INetConn::Alive() is true.  Sending picks a random member,        *)
(* removes the dead ones it meets on the way, and never deletes a          *)
(* connection: the removed ones are posted as MSG_CONN_ERR to a Handler.   *)
(***************************************************************************)
EXTENDS FiniteSets

CONSTANT NoConn        \* the absent key: 0 for keyOfConnToReset, ERR_NO_CONN
                       \* as the connection a send went through

LiveConns(conns, alive) == conns \cap alive
DeadConns(conns, alive) == conns \ alive

(***************************************************************************)
(* doSend's loop, as the set of its possible results: the connection that  *)
(* carried the packet and the dead ones removed before it was found.  With *)
(* no live connection every member is met and removed and the result is    *)
(* ERR_NO_CONN.  When the only live member is the one that must not carry  *)
(* the packet the loop has no exit, and the set is empty.                  *)
(***************************************************************************)
DoSendResults(conns, alive, keyOfConnToReset) ==
    [via : LiveConns(conns, alive) \ {keyOfConnToReset},
     removed : SUBSET DeadConns(conns, alive)]
    \cup
    IF LiveConns(conns, alive) = {}
    THEN {[via |-> NoConn, removed |-> DeadConns(conns, alive)]}
    ELSE {}

=============================================================================
