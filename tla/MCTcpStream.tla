---------------------------- MODULE MCTcpStream -----------------------------
(***************************************************************************)
(* The instances of Tcp in which two hosts hold one conversation, which is *)
(* what the theorems of TcpStreamProofs assume.                            *)
(***************************************************************************)
EXTENDS MCTcp

ASSUME StreamAssumption == OneConversation
=============================================================================
