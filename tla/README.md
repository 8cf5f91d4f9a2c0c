# TLA+ models of the Octelium auth-server web client

This directory holds TLA+ models of the two pages of the Octelium auth-server
web UI under `src/cluster/authserver/authserver/web/package/src/pages/`:

* `Authenticator/Authenticate/index.tsx` (called **Authenticate** below): the
  step-up page. It lists the user's authenticators, runs a TOTP or FIDO
  challenge against the auth server, and renames and deletes authenticators.
* `Login/index.tsx` (called **Login** below): the login page. It sends the user
  to an identity provider, or runs a passwordless passkey login.

`spec.md` describes these pages as a "challenge orchestrator" with sessions,
phases and a generation counter. The code has none of these. Each operation is
a TanStack Query `useMutation` whose `mutationFn` awaits the remote calls in
sequence. The model follows the code. The spec's promises are stated as
properties, and where the code does not keep them, a run shows how.

## 1. Inventory

### Components

| Component (spec name) | Code | State it keeps | Operations |
|---|---|---|---|
| ChallengeOrchestrator, step-up path | `TOTP` (Authenticate 28-80), `Fido` (82-137), their mounting by `Authenticator` (139-288) and `Page` (358-405) | one TanStack mutation per component instance; every `mutate()` starts an independent execution; the row's `open` flag decides whether the component is mounted | TOTP: `PinInput.onComplete` → begin → respond → redirect. FIDO: mount effect → begin → check kind → `navigator.credentials.get` → respond → redirect |
| CredentialCeremonyAdapter | the two `navigator.credentials.get` calls (Authenticate 98-103, Login 71-77) | the browser's one pending WebAuthn request | start, user approves, user cancels or timeout, a second request while one is pending |
| ChallengeOrchestrator, passkey path | `Passkey` (Login 60-115) | one mutation; the button is disabled while it is pending | click → begin → `credentials.get` with `mediation: "conditional"` → respond → redirect |
| LoginSessionInitiator | Login `Page` (117-268) | `loginActive`, `reqCommon`, the URL search params | mount effect (capture the query and user agent, show the `error` toast, delete the params); provider click → `fetch("/begin")` → navigate to `loginURL` |
| AuthenticatorRegistry | `Authenticator` rows (139-313), `AvailableAuthenticators` (344-356), `Page` query (361-366) | the `getAvailableAuthenticator` query cache; per row `open`, `isEdit`, `displayName` and the delete modal flag; the rows are rendered **without a `key`** | list, rename (`mutationUpdate`), delete (`mutationDelete`), and cache invalidation after each success |
| ResultRedirector | `window.location.href = ...` | none | terminal navigation |
| Dev fixtures | `devList`, `getState` in dev mode | constant data | none; not modelled |

### How they interact

There is one JavaScript event loop. A handler runs to completion. Remote calls
(`getClientAuth()` gRPC-web calls and `fetch`) and the WebAuthn ceremony resolve
later, as separate events, in any order relative to user input. TanStack
`useMutation` runs the `onSuccess` given in its options for **every** execution,
including executions that a newer `mutate()` has replaced and executions whose
component has been unmounted. Nothing cancels an execution. A component is
unmounted when the user clicks "Cancel" on its row (the `open` toggle), and
remounted when they click "Authenticate" again. A remounted `Fido` starts a new
execution from its mount effect. The main authenticator's `Fido` starts as soon
as the page loads, and the same authenticator can also be opened in its row.

### What is hard

* **Interleaving.** Executions of the same authenticator interleave: the
  main-slot `Fido` and a row `Fido`, a `Fido` that was cancelled and reopened,
  or a second TOTP `onComplete`. The server answers begin calls in any order
  relative to the respond calls.
* **Stale results.** A result that arrives after its component was unmounted, or
  after a newer execution started, still runs `onSuccess`.
* **Platform ceremony.** The browser allows one pending WebAuthn request. A
  second request fails, or aborts the first, depending on the browser. Without
  conditional mediation the browser times out a request. With
  `mediation: "conditional"` there is no timeout, and the request waits for an
  autofill choice.
* **Partial failure.** A `fetch("/begin")` that fails leaves `loginActive` set.
  A mutation whose reply is lost after the server applied it skips the cache
  invalidation.
* **Index-keyed rows.** `AvailableAuthenticators` renders the rows without a
  `key`. After a deletion and refetch, a row's React state (open delete modal,
  edit box) moves to the authenticator that now sits at its index.
* **Iterating while deleting.** The Login mount effect deletes search params
  inside `searchParams.forEach`, which skips every other key.

### Properties that make each component correct

* Step-up orchestration: every response has the kind of the challenge its
  own begin returned. Every
  execution settles. A result from a superseded or torn-down execution is
  inert. A respond answers the latest challenge issued for its authenticator.
* Passkey path and Login: at most one passkey login is pending at a time, and
  its success ends that pending attempt. Selection is re-enabled after a failure. Every
  passkey attempt settles. Navigation goes only to a URL the server returned.
  The login context carries the original query. The visible query is empty
  after mount.
* Registry: every delete, rename or challenge a row sends reaches the
  authenticator that the user confirmed, edited or opened. Once quiet, the cached list equals the server's list.
  A rename never changes `uid` or `kind`.

## 2. Plan

| Module | Part | Status |
|---|---|---|
| `StepUp.tla` (+ `MC_StepUp.tla`) | step-up orchestration: TOTP and `Fido` components, their mounting through the row toggle and the main slot, begin/ceremony/respond, `onSuccess` | done |
| `Ceremony.tla` | the browser's one pending `navigator.credentials.get` | done; instantiated by `StepUp` and `LoginPage` |
| `LoginPage.tla` (+ `MC_LoginPage.tla`) | Login mount effect, provider login, passkey path | done |
| `ClearParams.tla` | the mount effect's `forEach`/`delete` loop as a RECURSIVE operator | done; checked through `LoginPage` |
| `AuthAttempt.tla` | abstract one-attempt-at-a-time login button | done; `LoginPage`'s passkey path refines it |
| `Registry.tla` (+ `MC_Registry.tla`) | index-keyed rows, delete modal, rename box, the row's Authenticate toggle and the begin of each `Fido` it mounts, list query, invalidation and refetch | done; composes the rows with the mount of the step-up components |

Left for later work:

* `Registry` models a row's challenge only up to the begin that a `Fido` mount
  sends; `StepUp` models the rest, with `open` keyed by authenticator. A single
  module with both would need the two state spaces together, which is beyond
  TLC at useful bounds.
* The main slot after a refetch: `data.response.mainAuthenticator` can change
  when the list changes, and a main `Fido` would remount the same way. How the
  server chooses the main authenticator is not in this repository.
* A refinement of `StepUp`'s per-execution behaviour to `AuthAttempt` is not
  possible as is: the step-up page allows several concurrent executions, so the
  one-attempt abstraction does not hold. A per-slot abstraction could be
  stated instead.
* Rename with an untouched box sends `displayName = ""` (Authenticate 168). One
  click reaches it, so no property is spent on it.

## 3. Modules and runs

All runs are listed in `PROJECT.json` with the properties they check. Every
property of a passing run has a mutant there: a plausible bug in one mapped
definition that makes TLC report the property violated.

### StepUp.tla

State:

| Variable | Code |
|---|---|
| `open[a]` | `Authenticator`'s `open` state (141, 256-259); the row's challenge component is mounted while it is TRUE (276-288) |
| `inst[s]` | which mount of slot `s` is current; a remount is a new component instance with a new mutation |
| `execs` | the mutation executions, in the order `mutate()` was called. Each has its slot, instance, authenticator, component kind, progress `pc`, the challenge kind received (`chal`), the response kind sent (`rsp`) and the ceremony's mediation (`med`) |
| `platform` | the execution that holds the browser's pending `navigator.credentials.get`, or 0 (from `Ceremony`) |
| `lastBegin[a]` | the last execution whose begin the server answered for `a`; records order only |
| `redirected` | executions whose `onSuccess` assigned `window.location.href` |

Slots are `"main"` (the main authenticator, 388-400) and one slot per row.
`Init` is the page after the list has loaded: the main `Fido`'s mount effect
has already started its execution, because React runs the effect before the
next event.

Actions: `OpenRow` (the "Authenticate" button; a `Fido` row starts an execution
from its mount effect in the same step), `CancelRow`, `TOTPComplete`,
`BeginFailed`, `TOTPBeginOk`, `FidoBeginOk` (kind check and `credentials.get`
through `Ceremony!RequestCredential`), `FidoBeginOther` (the kind is not `fido`,
so the `mutationFn` returns `undefined` and `onSuccess` runs),
`CeremonyApprove`, `CeremonyReject`, `RespondAccepted` and `RespondRejected`.

The server is an environment. Its begin answers the authenticator's own kind
(constant `ServerSkew = FALSE`), or any kind (`TRUE`, a server of another
version). Its respond answers are nondeterministic. With `ServerSkew = TRUE`,
a non-fido challenge makes `Fido`'s `mutationFn` return `undefined`, and
`onSuccess` redirects without any respond (Authenticate 95). No run checks
this path, because it needs a server of another version.

Fairness: server replies are weakly fair, because the network eventually
answers or fails. The browser's ceremony timeout is weakly fair only for
non-conditional mediation, because WebAuthn ignores the timeout under
conditional mediation. User actions (toggle, PIN entry, approving the
ceremony) are not fair.

`CHECK_DEADLOCK FALSE` is set in every cfg of every module. Once the bounded
gestures are spent and every execution has settled, the page waits for input
that the bounds no longer allow. That is idling, not deadlock.

Runs (`MC_StepUp`: authenticators `a1` TOTP and `a2` FIDO, `a2` also the main
one; `MaxExecs = 3`, `MaxMounts = 2`). Three executions cover two executions of
the same FIDO authenticator (main slot and row, or two mounts of the row) plus a
third, which is what a second `credentials.get` and a superseded execution
need.

| Run | Expect | What it shows |
|---|---|---|
| `stepup_safety` | pass | with a faithful server, every response an execution sends has the kind of the challenge its own begin returned |
| `stepup_liveness` | pass | every execution settles, under fair replies and the non-conditional timeout, even with a skewed server |
| `stepup_stale_result` | violation | an unmounted or superseded execution still redirects |
| `stepup_challenge_pairing` | violation | the main-slot and row `Fido` of one authenticator interleave begin and respond |

### Ceremony.tla

Variables `platform` and `execs` (the caller's). `RequestCredential(xs, e, m)`
has three outcomes: the platform is free; it is busy and the new request fails
with `NotAllowedError`; it is busy and the browser aborts the old one. Browsers
differ here, so both busy outcomes are allowed. `Release(e)` ends the pending
request. `TimesOut(e)` is the condition under which the browser ends it on its
own.

### LoginPage.tla and ClearParams.tla

State: `query0` (the query the page was opened with), `url` (the visible
query's keys), `mounted`, `ctx` (`reqCommon.query`), `rendered` (the
re-render after `setReqCommon` has committed), `toasts`, `loginActive`,
`begins` (the `/begin` POSTs), `pk` (passkey executions), `platform`,
and `nav` (values assigned to `window.location.href`).

`MountEffect` (Login 125-138) captures the query into `ctx`, shows the `error`
toast, and runs the `forEach`/`delete` loop. `ClearParams!ClearedQuery` is that
loop: `ForEachDelete` walks an index over the live list, as Web IDL iteration
does, and `DeleteKey` removes every pair with the key. `CommitReqCommon` is the
re-render that follows. Until it commits, the provider buttons' `onClick`
closures still hold `reqCommon = null`. `ProviderClick` (219-242) is guarded
by `loginActive`. Its body is `BeginBody`: `{uid, ...reqCommon}`, which has no
query or user agent before that re-render. A click before the effect itself
sees the same `null`. React runs the pending effect right after that handler,
so the model lets the effect go first, and the two orders give the same
result. Its reply is `BeginOk`, `BeginErrorBody` (an HTTP
error status, whose body has no `loginURL`) or `BeginFailed` (a network error
or non-JSON body: the promise rejects and nothing catches it). The passkey path
is `PasskeyClick` (disabled while `isPending`), `PkBeginOk` (conditional
mediation), `PkBeginFailed`, `PkCeremonyApprove`, `PkCeremonyReject`,
`PkRespondAccepted` and `PkRespondRejected`.

Fairness: the mount effect, its re-render, network replies, and the ceremony timeout for
non-conditional requests are weakly fair. Clicks are not.

Refinement: `AuthAttempt` has `pending` and `succeeded`, and the actions
`Start`, `Fail` and `Succeed`. `LoginPage` maps `pending` to `PkPending` (the
latest passkey execution is unsettled, which is what `isPending` reports) and
`succeeded` to `"success" \in nav`. `PasskeyRefinesAttempt` is checked as a
PROPERTY.

Runs (`MC_LoginPage`: providers `p1`, `p2` under symmetry; keys `error` and
`state`; every initial query of up to three parameters; two `/begin`s and two
passkey executions). Three parameters cover a repeated key and both orders of
two keys, which is where the `forEach` skip shows.

| Run | Expect | What it shows |
|---|---|---|
| `login_safety` | pass | across every initial query and interleaved provider logins, the passkey button refines `AuthAttempt` |
| `login_begin_query` | violation | a click before the `setReqCommon` re-render posts `/begin` without the login context |
| `login_selection_recovers` | violation | a failed `/begin` leaves every provider button disabled |
| `login_navigate_returned_url` | violation | an HTTP error body navigates to `undefined` |
| `login_passkey_settles` | violation | a conditional-mediation ceremony can wait forever, so the button stays disabled |
| `login_clear_url` | violation | `?error=x&state=y` keeps `state` after mount |

### Registry.tla

State:

| Variable | Code |
|---|---|
| `srv` | the server's list: authenticator ids in order and their display names |
| `cache` | the `getAvailableAuthenticator` query data; the rows render `cache.ids` by index (351-353) |
| `fetch` | the refetch: idle, sent, or answered with a snapshot that has not landed yet |
| `delOpen[i]`, `edit[i]`, `dn[i]` | row `i`'s `isDelete` disclosure (145), `isEdit` (142) and `displayName` (143). They are kept by index because the rows have no `key` |
| `delIntent[i]`, `editIntent[i]` | history: the authenticator row `i` showed when its modal or edit box was opened |
| `muts` | the delete and update calls: row, target sent, name sent, intent, and pending or done |
| `open[i]`, `openIntent[i]` | row `i`'s `open` state (141), and the authenticator it showed when "Authenticate" was clicked |
| `begins` | the begins sent by `Fido` mount effects (132-134): the authenticator asked for, and the one the row was opened on |

Actions: `OpenRow` (the "Authenticate" toggle; a FIDO row mounts a `Fido`
whose effect sends the begin), `CancelRow`, `OpenDelete`, `CloseDelete`, `ConfirmDelete` (disabled while the row's
delete mutation is pending), `ToggleEdit`, `TypeName`, `SubmitRename`,
`MutationOk` (the server applies the call; `onSuccess` invalidates),
`MutationFailed`, `FetchAnswer` (the server's list at that moment), and
`FetchLand` (the data lands; rows past the new end unmount and lose their
state). In `FetchLand`, a row that stays open and whose authenticator turns
from TOTP into FIDO gets a new `Fido` (React replaces the component type at
that position), and `FidoMounts` adds its begin. A row that stays FIDO keeps
its old `Fido` instance, and no new begin is sent. `Invalidate` follows TanStack's default `cancelRefetch:
true`: a refetch in flight is replaced.

No property of this module is a liveness property, so it assumes no
fairness. `QuiescentCacheFresh` checks the states where no call is pending
and no refetch is in flight. TanStack's default refetch on window focus and
on reconnect is left out. It depends on the user leaving the tab, and it
would only add refetches. Replies always arrive here: a
reply lost after the server applied the call skips the invalidation, because
`onError` is empty, and the list stays stale. A property would only restate
that empty handler, so no run checks it.

Runs (`MC_Registry`: authenticators `a1` (TOTP) and `a2` (FIDO); one display
name besides `""`). Two rows of different kinds are enough for a row to shift
onto the other kind. `registry_safety` uses `MaxMuts = 2`: a delete and a
rename, or two deletes, whose invalidations overlap a refetch in flight. It
explores about 384 000 states in about ten seconds. The violation
run uses `MaxMuts = 3`: a delete, then a second call through the shifted row.

| Run | Expect | What it shows |
|---|---|---|
| `registry_safety` | pass | with replies that arrive, a quiet page shows the server's list |
| `registry_row_targets` | violation | `RowCallsTargetIntended`: after a delete and refetch, a row's next call names an authenticator the user never acted on. TLC's trace: an open TOTP row shifts onto the FIDO authenticator, and the new `Fido`'s mount effect starts a challenge. The same shift lets the still-open delete modal delete the next authenticator |

## 4. Not modelled

* Presentation, styling, the SVG logo, and `TimeAgo`.
* Dev fixtures (`devList`, the dev branch of `getState`): constant data.
* The user agent string captured by the Login mount effect: it is constant.
* The page unloading after `window.location.href` is assigned. Events already
  queued can still run, so the model keeps running after a redirect.
* Parameter values and the contents of challenges and credentials: the
  properties only tell kinds and keys apart.
