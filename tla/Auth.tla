-------------------------------- MODULE Auth --------------------------------
(***************************************************************************)
(* hmacAuth for HTTP and the interceptors for gRPC, which check alike: a   *)
(* request carries the time it was signed at, in whole seconds, and a code *)
(* made with the secret of the cluster.  The code is the pair of what goes *)
(* into it; method and address are left out, both sides see the same.      *)
(* Times are in milliseconds.                                              *)
(***************************************************************************)
EXTENDS Integers

MaxClockSkew == 30000

SignHTTP(secret, now) == [ts |-> now \div 1000, mac |-> <<secret, now \div 1000>>]

\* Mutant: a time in the future is refused, however close it is.
VerifyHTTPPastOnly(secret, req, now) ==
  LET age == now - 1000 * req.ts IN
  /\ 0 <= age /\ age <= MaxClockSkew
  /\ req.mac = <<secret, req.ts>>

VerifyHTTP(secret, req, now) ==
  LET age == now - 1000 * req.ts IN
  /\ -MaxClockSkew <= age /\ age <= MaxClockSkew
  /\ req.mac = <<secret, req.ts>>

=============================================================================
