------------------------------ MODULE Ceremony ------------------------------
(***************************************************************************)
(* The browser's WebAuthn request, navigator.credentials.get, as both      *)
(* pages call it (Authenticate Fido, Login Passkey).  The browser keeps    *)
(* one pending request.  A second request while one is pending fails with  *)
(* NotAllowedError, or the browser aborts the older one; both outcomes     *)
(* occur across browsers.  The caller's executions are records with a pc   *)
(* and a med field; the caller instantiates execs with its own variable.   *)
(***************************************************************************)
EXTENDS Naturals

VARIABLES
    platform,   \* the execution owning the pending request, or 0
    execs       \* the caller's executions

\* navigator.credentials.get({publicKey, mediation: m}) from execution e;
\* xs is execs with the caller's other updates of this step applied.
RequestCredential(xs, e, m) ==
    \/ /\ platform = 0
       /\ platform' = e
       /\ execs' = [xs EXCEPT ![e].pc = "ceremony", ![e].med = m]
    \/ /\ platform # 0
       /\ platform' = platform
       /\ execs' = [xs EXCEPT ![e].pc = "failed"]
    \/ /\ platform # 0
       /\ platform' = e
       /\ execs' = [xs EXCEPT ![e].pc = "ceremony", ![e].med = m,
                              ![platform].pc = "failed"]

\* The pending request of e settles, with a credential or a rejection.
Release(e) ==
    /\ platform = e
    /\ platform' = 0

\* WebAuthn ignores the timeout under conditional mediation, so only a
\* non-conditional request is ended by the browser on its own.
TimesOut(e) == platform = e /\ execs[e].med # "conditional"

=============================================================================
