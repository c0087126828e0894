----------------------------- MODULE MCProxyPool -----------------------------
(***************************************************************************)
(* ProxyPool for TLC, and what a docstring says of it that the code does   *)
(* not keep.                                                               *)
(***************************************************************************)
EXTENDS ProxyPool

(* mark_problematic: "Flag a proxy/IP as problematic and keep it out of    *)
(* rotation for a cooldown".  No step makes a proxy usable while its       *)
(* cooldown runs.  A health check already in flight when a window flags    *)
(* the proxy does: its result clears the cooldown.                         *)
CooldownKept ==
  [][\A s \in DOMAIN pool :
       pool[s].standing = "cooling" => s \notin Usable(pool')]_vars

=============================================================================
