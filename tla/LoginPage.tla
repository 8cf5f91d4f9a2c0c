------------------------------ MODULE LoginPage ------------------------------
(***************************************************************************)
(* The Login page (pages/Login/index.tsx).                                 *)
(*                                                                         *)
(* The mount effect captures the login context (the query and the user    *)
(* agent), shows the error parameter as a toast and clears the URL.  A     *)
(* provider button disables every provider button (loginActive) and POSTs  *)
(* /begin; the reply's loginURL becomes window.location.href.  The Passkey *)
(* button, disabled while its mutation is pending, runs begin, a           *)
(* conditional-mediation credentials.get and respond, then redirects to    *)
(* /callback/success.                                                      *)
(***************************************************************************)
EXTENDS Naturals, Sequences, FiniteSets

CONSTANTS
    Providers,       \* state.identityProviders (model values)
    PasskeyEnabled,  \* state.isPasskeyLoginEnabled
    Keys,            \* parameter keys a query may carry, "error" among them
    MaxQuery,        \* bound on the parameters of the initial query
    MaxBegins,       \* bound on the /begin requests
    MaxPasskey       \* bound on the passkey mutation executions

ASSUME PasskeyEnabled \in BOOLEAN /\ "error" \in Keys
ASSUME {MaxQuery, MaxBegins, MaxPasskey} \subseteq Nat

VARIABLES
    query0,       \* the query the page was opened with
    url,          \* the parameter keys in the visible URL
    mounted,      \* the mount effect has run
    ctx,          \* reqCommon.query, captured by the mount effect
    rendered,     \* the re-render after setReqCommon has committed
    toasts,       \* error toasts shown
    loginActive,  \* the provider buttons are disabled
    begins,       \* the /begin POSTs: [uid, query, st]
    pk,           \* the passkey mutation executions: [pc, med]
    platform,     \* the execution owning the pending credentials.get, or 0
    nav           \* values assigned to window.location.href

vars == <<query0, url, mounted, ctx, rendered, toasts, loginActive, begins, pk,
          platform, nav>>

CP == INSTANCE ClearParams
C  == INSTANCE Ceremony WITH execs <- pk

Settled == {"ok", "failed"}
Destinations == {"idp", "undefined", "success"}

\* The passkey mutation is pending: TanStack's isPending follows the
\* observer's latest execution.
PkPending == Len(pk) > 0 /\ pk[Len(pk)].pc \notin Settled

\* The page is opened with any query of at most MaxQuery parameters.
Init ==
    /\ query0 \in CP!Queries(Keys, MaxQuery)
    /\ url = query0
    /\ mounted = FALSE
    /\ ctx = <<>>
    /\ rendered = FALSE
    /\ toasts = 0
    /\ loginActive = FALSE
    /\ begins = <<>>
    /\ pk = <<>>
    /\ platform = 0
    /\ nav = {}

(***************************************************************************)
(* Mount effect                                                            *)
(***************************************************************************)

\* Mutant: one toast per error pair (searchParams.getAll("error")).
MountEffectToastEach ==
    /\ ~mounted
    /\ mounted' = TRUE
    /\ ctx' = url
    /\ toasts' = Len(SelectSeq(url, LAMBDA k : k = "error"))
    /\ url' = CP!ClearedQuery(url)
    /\ UNCHANGED <<query0, rendered, loginActive, begins, pk, platform, nav>>

\* setReqCommon({query: searchParams.toString(), ...}); toast the error
\* parameter; delete the parameters inside forEach; setSearchParams.
MountEffect ==
    /\ ~mounted
    /\ mounted' = TRUE
    /\ ctx' = url
    /\ toasts' = IF \E i \in 1..Len(url) : url[i] = "error" THEN 1 ELSE 0
    /\ url' = CP!ClearedQuery(url)
    /\ UNCHANGED <<query0, rendered, loginActive, begins, pk, platform, nav>>

(***************************************************************************)
(* Provider login                                                          *)
(***************************************************************************)

\* The committed render that follows the effect's setReqCommon has not run
\* yet, but the user can already click.  A click handler closes over the
\* reqCommon of the render it was created in: null until that re-render.
\* (A click before the effect itself sees the same null, and React runs
\* the pending effect right after that handler, so the two orders agree.)
CommitReqCommon ==
    /\ mounted /\ ~rendered
    /\ rendered' = TRUE
    /\ UNCHANGED <<query0, url, mounted, ctx, toasts, loginActive, begins, pk,
                   platform, nav>>

\* The /begin body {uid, ...reqCommon} of a click on provider p: with the
\* login context after the re-render, without it (null spreads to no
\* field) before.
BeginBody(p) ==
    [uid |-> p, withCtx |-> rendered,
     query |-> IF rendered THEN ctx ELSE <<>>, st |-> "pending"]

\* onClick of an enabled provider button: setLoginActive(true) and POST
\* /begin with {uid, ...reqCommon}.
ProviderClick(p) ==
    /\ mounted
    /\ ~loginActive
    /\ Len(begins) < MaxBegins
    /\ loginActive' = TRUE
    /\ begins' = Append(begins, BeginBody(p))
    /\ UNCHANGED <<query0, rendered, url, mounted, ctx, toasts, pk, platform,
                   nav>>

\* The reply of /begin r: a loginURL, an error status whose JSON body has
\* no loginURL (fetch still resolves, so location.href = undefined), or a
\* network failure or non-JSON body (the promise rejects, nothing catches
\* it, and loginActive stays set).
BeginReply(r, d) ==
    /\ begins[r].st = "pending"
    /\ begins' = [begins EXCEPT ![r].st = "done"]
    /\ nav' = nav \cup d
    /\ UNCHANGED <<query0, rendered, url, mounted, ctx, toasts, loginActive, pk,
                   platform>>

BeginOk(r)        == BeginReply(r, {"idp"})
BeginErrorBody(r) == BeginReply(r, {"undefined"})
BeginFailed(r)    == BeginReply(r, {})

(***************************************************************************)
(* Passkey login                                                           *)
(***************************************************************************)

\* Mutant: the Passkey button is not disabled while the mutation is pending.
PasskeyClickUnguarded ==
    /\ PasskeyEnabled
    /\ Len(pk) < MaxPasskey
    /\ pk' = Append(pk, [pc |-> "begin", med |-> "none"])
    /\ UNCHANGED <<query0, rendered, url, mounted, ctx, toasts, loginActive, begins,
                   platform, nav>>

\* The Passkey button (rendered when passkey login is enabled) calls
\* mutation.mutate(); the execution sends authenticateWithPasskeyBegin.
PasskeyClick ==
    /\ PasskeyEnabled
    /\ ~PkPending
    /\ Len(pk) < MaxPasskey
    /\ pk' = Append(pk, [pc |-> "begin", med |-> "none"])
    /\ UNCHANGED <<query0, rendered, url, mounted, ctx, toasts, loginActive, begins,
                   platform, nav>>

\* Begin resolves and the options parse: credentials.get with
\* mediation "conditional".
PkBeginOk(e) ==
    /\ pk[e].pc = "begin"
    /\ C!RequestCredential(pk, e, "conditional")
    /\ UNCHANGED <<query0, rendered, url, mounted, ctx, toasts, loginActive, begins,
                   nav>>

\* Begin rejects, or parsing its options throws: onError does nothing.
PkBeginFailed(e) ==
    /\ pk[e].pc = "begin"
    /\ pk' = [pk EXCEPT ![e].pc = "failed"]
    /\ UNCHANGED <<query0, rendered, url, mounted, ctx, toasts, loginActive, begins,
                   platform, nav>>

\* The user picks a passkey: the credential is sent with
\* authenticateWithPasskey.
PkCeremonyApprove(e) ==
    /\ C!Release(e)
    /\ pk' = [pk EXCEPT ![e].pc = "respond"]
    /\ UNCHANGED <<query0, rendered, url, mounted, ctx, toasts, loginActive, begins,
                   nav>>

\* credentials.get rejects: the catch block rethrows.
PkCeremonyReject(e) ==
    /\ C!Release(e)
    /\ pk' = [pk EXCEPT ![e].pc = "failed"]
    /\ UNCHANGED <<query0, rendered, url, mounted, ctx, toasts, loginActive, begins,
                   nav>>

\* authenticateWithPasskey resolves: onSuccess redirects.
PkRespondAccepted(e) ==
    /\ pk[e].pc = "respond"
    /\ pk' = [pk EXCEPT ![e].pc = "ok"]
    /\ nav' = nav \cup {"success"}
    /\ UNCHANGED <<query0, rendered, url, mounted, ctx, toasts, loginActive, begins,
                   platform>>

\* authenticateWithPasskey rejects: the catch block rethrows; onError.
PkRespondRejected(e) ==
    /\ pk[e].pc = "respond"
    /\ pk' = [pk EXCEPT ![e].pc = "failed"]
    /\ UNCHANGED <<query0, rendered, url, mounted, ctx, toasts, loginActive, begins,
                   platform, nav>>

Next ==
    \/ MountEffect
    \/ CommitReqCommon
    \/ \E p \in Providers : ProviderClick(p)
    \/ \E r \in DOMAIN begins : BeginOk(r)
    \/ \E r \in DOMAIN begins : BeginErrorBody(r)
    \/ \E r \in DOMAIN begins : BeginFailed(r)
    \/ PasskeyClick
    \/ \E e \in DOMAIN pk : PkBeginOk(e)
    \/ \E e \in DOMAIN pk : PkBeginFailed(e)
    \/ \E e \in DOMAIN pk : PkCeremonyApprove(e)
    \/ \E e \in DOMAIN pk : PkCeremonyReject(e)
    \/ \E e \in DOMAIN pk : PkRespondAccepted(e)
    \/ \E e \in DOMAIN pk : PkRespondRejected(e)

\* React runs the mount effect and then renders the state it set; the
\* network answers or fails every request; the browser times out non-conditional
\* ceremonies only.  Clicks and the passkey choice are not fair.
Fairness ==
    /\ WF_vars(MountEffect)
    /\ WF_vars(CommitReqCommon)
    /\ \A r \in 1..MaxBegins :
          WF_vars(r \in DOMAIN begins
                  /\ (BeginOk(r) \/ BeginErrorBody(r) \/ BeginFailed(r)))
    /\ \A e \in 1..MaxPasskey :
          /\ WF_vars(e \in DOMAIN pk /\ (PkBeginOk(e) \/ PkBeginFailed(e)))
          /\ WF_vars(e \in DOMAIN pk
                     /\ (PkRespondAccepted(e) \/ PkRespondRejected(e)))
          /\ WF_vars(e \in DOMAIN pk /\ C!TimesOut(e) /\ PkCeremonyReject(e))

Spec == Init /\ [][Next]_vars /\ Fairness

(***************************************************************************)
(* Properties                                                              *)
(***************************************************************************)

\* Type invariant; the error toast is shown at most once (spec 8).
TypeOK ==
    /\ query0 \in Seq(Keys) /\ url \in Seq(Keys) /\ ctx \in Seq(Keys)
    /\ rendered \in BOOLEAN
    /\ mounted \in BOOLEAN /\ toasts \in 0..1 /\ loginActive \in BOOLEAN
    /\ begins \in Seq([uid : Providers, withCtx : BOOLEAN, query : Seq(Keys),
                       st : {"pending", "done"}])
    /\ pk \in Seq([pc : {"begin", "ceremony", "respond"} \cup Settled,
                   med : {"none", "optional", "conditional"}])
    /\ platform \in {0} \cup DOMAIN pk
    /\ nav \subseteq Destinations

\* spec 4.4: every /begin POST carries the login context, the query the
\* page was opened with, although the mount effect clears it from the URL.
BeginCarriesQuery ==
    \A r \in DOMAIN begins : begins[r].withCtx /\ begins[r].query = query0

\* The Passkey button implements AuthAttempt: one attempt at a time, and
\* the success redirect only ends a pending attempt.
Attempt == INSTANCE AuthAttempt
    WITH pending <- PkPending, succeeded <- "success" \in nav
PasskeyRefinesAttempt == Attempt!Spec

\* spec 4.4: after a failed /begin the provider buttons are enabled again;
\* they stay disabled only while a request is outstanding or the browser
\* is navigating away.
SelectionRecovers ==
    loginActive =>
        \/ \E r \in DOMAIN begins : begins[r].st = "pending"
        \/ nav # {}

\* spec 4.4: the browser goes only to a loginURL that the server returned.
NavigateOnlyToReturnedURL == "undefined" \notin nav

\* spec 5: a passkey attempt cannot hang: every execution settles and the
\* button becomes usable again.
PasskeySettles ==
    \A e \in 1..MaxPasskey :
        (e \in DOMAIN pk) ~> (e \in DOMAIN pk /\ pk[e].pc \in Settled)

\* spec 4.4: after mount the visible URL carries no query parameters, so a
\* reload does not show the error toast again (reference: delete all).
URLClearedAfterMount == mounted => url = <<>>

=============================================================================
