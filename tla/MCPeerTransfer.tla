---------------------------- MODULE MCPeerTransfer ---------------------------
(***************************************************************************)
(* PeerTransfer for model checking: a provider that replaces its core by   *)
(* staged updates between two releases of one channel.                     *)
(***************************************************************************)
EXTENDS PeerTransfer

MCVersion == <<1, 2>>
MCChannel == <<"production", "production">>

\* A bound on the inputs: every update the provider's core stages is core 2.
OnlyUpgrades == staging # 1
=============================================================================
