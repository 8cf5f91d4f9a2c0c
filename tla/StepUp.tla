------------------------------- MODULE StepUp -------------------------------
(***************************************************************************)
(* The step-up challenge of the Authenticate page                          *)
(* (pages/Authenticator/Authenticate/index.tsx).                           *)
(*                                                                         *)
(* Each TOTP or Fido component owns a TanStack mutation.  Every mutate()   *)
(* starts an independent execution that awaits the begin call, for FIDO   *)
(* the browser's navigator.credentials.get, then the respond call.  The    *)
(* onSuccess of the mutation options (window.location.href =               *)
(* "/callback/success") runs for every execution that resolves, whether   *)
(* or not its component is still mounted.  Components live in slots: the  *)
(* main-authenticator slot "main" and one row per authenticator, mounted   *)
(* while the row's open flag is set.                                       *)
(***************************************************************************)
EXTENDS Naturals, Sequences, FiniteSets

CONSTANTS
    Authns,      \* the user's authenticators (model values)
    Kind,        \* Kind[a] \in {"TOTP", "FIDO"}: authn.status.type
    MainAuthn,   \* data.response.mainAuthenticator, or a value not in Authns
    MaxExecs,    \* bound on the number of mutation executions
    MaxMounts,   \* bound on the number of times a row is opened
    ServerSkew   \* TRUE: the server may answer begin with any challenge kind

ASSUME Kind \in [Authns -> {"TOTP", "FIDO"}]
ASSUME MaxExecs \in Nat \ {0} /\ MaxMounts \in Nat /\ ServerSkew \in BOOLEAN

VARIABLES
    open,        \* open[a]: the row's Authenticate/Cancel toggle
    inst,        \* inst[s]: number of the current mount of slot s
    execs,       \* the mutation executions, in the order mutate() ran
    platform,    \* the execution owning the pending credentials.get, or 0
    lastBegin,   \* lastBegin[a]: last execution whose begin the server answered
    redirected   \* executions whose onSuccess assigned window.location.href

vars == <<open, inst, execs, platform, lastBegin, redirected>>

ChalKinds == {"totp", "fido", "none"}   \* challengeRequest.type.oneofKind
Settled   == {"ok", "failed", "resolved"}
PCs       == {"begin", "ceremony", "respond"} \cup Settled
Mediations == {"none", "optional", "conditional"}

Slots == IF MainAuthn \in Authns THEN Authns \cup {"main"} ELSE Authns

\* The authenticator a slot renders: the main one, or the row's own.
SlotAuthn(s) == IF s = "main" THEN MainAuthn ELSE s

\* Mutant: the row's FIDO branch renders <TOTP> (a copy-paste slip).
CompKindSwapped(s) == IF s = "main" THEN Kind[MainAuthn] ELSE "TOTP"

\* Dispatch on authn.status.type: a Fido or a TOTP component.
CompKind(s) == Kind[SlotAuthn(s)]

\* The main slot is always rendered; a row's component only while open.
Mounted(s) == IF s = "main" THEN TRUE ELSE open[s]

\* The challenge kinds the server may answer a begin for a with.
BeginKinds(a) ==
    IF ServerSkew THEN ChalKinds
    ELSE {IF Kind[a] = "FIDO" THEN "fido" ELSE "totp"}

ExecRec == [slot : Slots, inst : Nat, authn : Authns, comp : {"TOTP", "FIDO"},
            pc : PCs, chal : ChalKinds, rsp : ChalKinds, med : Mediations]

\* mutate() on mount i of slot s: the execution sends the
\* begin request for its authenticator.
NewExec(s, i) ==
    [slot |-> s, inst |-> i, authn |-> SlotAuthn(s), comp |-> CompKind(s),
     pc |-> "begin", chal |-> "none", rsp |-> "none", med |-> "none"]

\* The page has loaded the list; the main Fido's mount effect has run.
Init ==
    /\ open = [a \in Authns |-> FALSE]
    /\ inst = [s \in Slots |-> IF s = "main" THEN 1 ELSE 0]
    /\ execs = IF "main" \in Slots /\ CompKind("main") = "FIDO"
               THEN <<NewExec("main", 1)>> ELSE <<>>
    /\ platform = 0
    /\ lastBegin = [a \in Authns |-> 0]
    /\ redirected = {}

(***************************************************************************)
(* User gestures                                                           *)
(***************************************************************************)

\* "Authenticate": the row opens and mounts a new component instance.  A
\* Fido's mount effect calls mutate() before any further event.
OpenRow(a) ==
    /\ ~open[a]
    /\ inst[a] < MaxMounts
    /\ CompKind(a) = "FIDO" => Len(execs) < MaxExecs
    /\ open' = [open EXCEPT ![a] = TRUE]
    /\ inst' = [inst EXCEPT ![a] = @ + 1]
    /\ execs' = IF CompKind(a) = "FIDO"
                THEN Append(execs, NewExec(a, inst[a] + 1))
                ELSE execs
    /\ UNCHANGED <<platform, lastBegin, redirected>>

\* "Cancel": the component unmounts; its executions keep running.
CancelRow(a) ==
    /\ open[a]
    /\ open' = [open EXCEPT ![a] = FALSE]
    /\ UNCHANGED <<inst, execs, platform, lastBegin, redirected>>

\* PinInput onComplete: mutation.mutate(val).  The input is never disabled.
TOTPComplete(s) ==
    /\ Mounted(s)
    /\ CompKind(s) = "TOTP"
    /\ Len(execs) < MaxExecs
    /\ execs' = Append(execs, NewExec(s, inst[s]))
    /\ UNCHANGED <<open, inst, platform, lastBegin, redirected>>

\* The browser's credential request, shared with the Login page.
C == INSTANCE Ceremony

(***************************************************************************)
(* Replies and ceremony outcomes of execution e                            *)
(***************************************************************************)

\* authenticateAuthenticatorBegin rejects: onError does nothing.
BeginFailed(e) ==
    /\ execs[e].pc = "begin"
    /\ execs' = [execs EXCEPT ![e].pc = "failed"]
    /\ UNCHANGED <<open, inst, platform, lastBegin, redirected>>

\* TOTP ignores the challenge and sends the entered code as a totp response.
TOTPBeginOk(e) ==
    /\ execs[e].pc = "begin"
    /\ execs[e].comp = "TOTP"
    /\ \E k \in BeginKinds(execs[e].authn) :
          execs' = [execs EXCEPT ![e].chal = k, ![e].pc = "respond",
                                 ![e].rsp = "totp"]
    /\ lastBegin' = [lastBegin EXCEPT ![execs[e].authn] = e]
    /\ UNCHANGED <<open, inst, platform, redirected>>

\* Mutant: the step-up Fido asks with mediation: "conditional", as the
\* Passkey component does.
FidoBeginOkConditional(e) ==
    /\ execs[e].pc = "begin"
    /\ execs[e].comp = "FIDO"
    /\ "fido" \in BeginKinds(execs[e].authn)
    /\ C!RequestCredential([execs EXCEPT ![e].chal = "fido"], e, "conditional")
    /\ lastBegin' = [lastBegin EXCEPT ![execs[e].authn] = e]
    /\ UNCHANGED <<open, inst, redirected>>

\* Fido with a fido challenge: parse the options and ask the browser.
FidoBeginOk(e) ==
    /\ execs[e].pc = "begin"
    /\ execs[e].comp = "FIDO"
    /\ "fido" \in BeginKinds(execs[e].authn)
    /\ C!RequestCredential([execs EXCEPT ![e].chal = "fido"], e, "optional")
    /\ lastBegin' = [lastBegin EXCEPT ![execs[e].authn] = e]
    /\ UNCHANGED <<open, inst, redirected>>

\* Fido with any other challenge: the mutationFn falls through the kind
\* check and returns undefined, so the mutation resolves and onSuccess runs.
FidoBeginOther(e) ==
    /\ execs[e].pc = "begin"
    /\ execs[e].comp = "FIDO"
    /\ \E k \in BeginKinds(execs[e].authn) \ {"fido"} :
          execs' = [execs EXCEPT ![e].chal = k, ![e].pc = "resolved"]
    /\ lastBegin' = [lastBegin EXCEPT ![execs[e].authn] = e]
    /\ redirected' = redirected \cup {e}
    /\ UNCHANGED <<open, inst, platform>>

\* Mutant: the response is tagged with the authenticator type enum "FIDO"
\* instead of the oneofKind "fido".
CeremonyApproveWrongTag(e) ==
    /\ C!Release(e)
    /\ execs' = [execs EXCEPT ![e].pc = "respond", ![e].rsp = "FIDO"]
    /\ UNCHANGED <<open, inst, lastBegin, redirected>>

\* The user completes the ceremony: the credential is sent as a fido response.
CeremonyApprove(e) ==
    /\ C!Release(e)
    /\ execs' = [execs EXCEPT ![e].pc = "respond", ![e].rsp = "fido"]
    /\ UNCHANGED <<open, inst, lastBegin, redirected>>

\* The user cancels or the browser times out: the catch block rethrows.
CeremonyReject(e) ==
    /\ C!Release(e)
    /\ execs' = [execs EXCEPT ![e].pc = "failed"]
    /\ UNCHANGED <<open, inst, lastBegin, redirected>>

\* authenticateWithAuthenticator resolves: onSuccess redirects.
RespondAccepted(e) ==
    /\ execs[e].pc = "respond"
    /\ execs' = [execs EXCEPT ![e].pc = "ok"]
    /\ redirected' = redirected \cup {e}
    /\ UNCHANGED <<open, inst, platform, lastBegin>>

\* authenticateWithAuthenticator rejects (denied or transport): onError.
RespondRejected(e) ==
    /\ execs[e].pc = "respond"
    /\ execs' = [execs EXCEPT ![e].pc = "failed"]
    /\ UNCHANGED <<open, inst, platform, lastBegin, redirected>>

Next ==
    \/ \E a \in Authns : OpenRow(a)
    \/ \E a \in Authns : CancelRow(a)
    \/ \E s \in Slots : TOTPComplete(s)
    \/ \E e \in DOMAIN execs : BeginFailed(e)
    \/ \E e \in DOMAIN execs : TOTPBeginOk(e)
    \/ \E e \in DOMAIN execs : FidoBeginOk(e)
    \/ \E e \in DOMAIN execs : FidoBeginOther(e)
    \/ \E e \in DOMAIN execs : CeremonyApprove(e)
    \/ \E e \in DOMAIN execs : CeremonyReject(e)
    \/ \E e \in DOMAIN execs : RespondAccepted(e)
    \/ \E e \in DOMAIN execs : RespondRejected(e)

\* The browser's timeout ends a non-conditional ceremony.
CeremonyTimeout(e) == C!TimesOut(e) /\ CeremonyReject(e)

\* The network eventually answers every request or fails it; the browser
\* times out a non-conditional ceremony.  User gestures are not fair.
Fairness ==
    \A e \in 1..MaxExecs :
        /\ WF_vars(e \in DOMAIN execs /\ (BeginFailed(e) \/ TOTPBeginOk(e)
                      \/ FidoBeginOk(e) \/ FidoBeginOther(e)))
        /\ WF_vars(e \in DOMAIN execs /\ (RespondAccepted(e) \/ RespondRejected(e)))
        /\ WF_vars(e \in DOMAIN execs /\ CeremonyTimeout(e))

Spec == Init /\ [][Next]_vars /\ Fairness

(***************************************************************************)
(* Properties                                                              *)
(***************************************************************************)

\* Type invariant; the pending browser request belongs to a known execution.
TypeOK ==
    /\ open \in [Authns -> BOOLEAN]
    /\ inst \in [Slots -> 0..MaxMounts]
    /\ execs \in Seq(ExecRec) /\ Len(execs) <= MaxExecs
    /\ platform \in {0} \cup DOMAIN execs
    /\ lastBegin \in [Authns -> {0} \cup DOMAIN execs]
    /\ redirected \subseteq DOMAIN execs

\* Every response the page sends (the oneofKind of challengeResponse) has
\* the kind of the challenge that its own begin call returned.
ResponseKindMatchesChallenge ==
    \A e \in DOMAIN execs :
        execs[e].rsp # "none" => execs[e].rsp = execs[e].chal

\* Every mutation execution eventually settles, so no component is left
\* waiting on a begin, a ceremony or a respond forever.
EveryExecutionSettles ==
    \A e \in 1..MaxExecs :
        (e \in DOMAIN execs) ~> (e \in DOMAIN execs /\ execs[e].pc \in Settled)

\* An execution is live when the component instance that started it is
\* still mounted.
Live(e) == Mounted(execs[e].slot) /\ inst[execs[e].slot] = execs[e].inst

\* spec 4.1: a result is applied (onSuccess redirects) only for the most
\* recent execution of the page, and only while its component is mounted;
\* a late result after Cancel or after a newer mutate() is inert.
StaleResultInert ==
    [][\A e \in redirected' \ redirected : Live(e) /\ e = Len(execs)]_vars

\* spec 5: begin/respond pairs of one authenticator do not interleave: when
\* the server handles e's respond, the last begin it answered for that
\* authenticator is e's own.
RespondPairsWithLatestBegin ==
    [][\A e \in DOMAIN execs :
         (execs[e].pc = "respond" /\ execs'[e].pc # "respond")
            => lastBegin[execs[e].authn] = e]_vars

=============================================================================
