----------------------------- MODULE MCSession ------------------------------
(* Instances of Session for TLC. *)
EXTENDS Session

(* Core 2 does not exist. *)
ThreeCores == {0, 1, NoCore}
Everything == Names \ {"exit", "pause", "settings"}
=============================================================================
