------------------------------ MODULE Registry ------------------------------
(***************************************************************************)
(* The authenticator list of the Authenticate page: the                    *)
(* getAvailableAuthenticator query, the Authenticator rows with their      *)
(* delete modal and rename box, and the invalidation after a successful    *)
(* delete or update.  AvailableAuthenticators renders the rows without a   *)
(* key, so React keeps a row's state (modal open, edit box, typed name,    *)
(* mutation) by index while the authenticator shown at that index changes. *)
(* The row's Authenticate toggle mounts its Fido or TOTP component; a Fido *)
(* mount starts a challenge at once.  The challenge's further steps are    *)
(* modelled in StepUp; here only the begin each Fido mount sends.          *)
(***************************************************************************)
EXTENDS Naturals, Sequences, FiniteSets

CONSTANTS
    Order,        \* the server's list at page load (a sequence of model values)
    Names,        \* display names a user can type, "" excluded
    Kind,         \* Kind[a] \in {"TOTP", "FIDO"}: authn.status.type
    MaxMuts       \* bound on delete and update calls

Authns == {Order[i] : i \in DOMAIN Order}
NoAuthn == "none"
Rows == DOMAIN Order   \* row indices that can ever be rendered

ASSUME Cardinality(Authns) = Len(Order) /\ "" \notin Names
ASSUME MaxMuts \in Nat /\ Kind \in [Authns -> {"TOTP", "FIDO"}]

VARIABLES
    srv,       \* the server's list: [ids, names]
    cache,     \* the query's data, the same shape; the rows render cache.ids
    fetch,     \* the refetch: [st : {"idle", "sent", "answered"}, snap]
    delOpen,   \* delOpen[i]: row i's delete modal is open
    edit,      \* edit[i]: row i's isEdit
    dn,        \* dn[i]: row i's displayName state
    delIntent, \* delIntent[i], editIntent[i]: the authenticator row i showed
    editIntent,\* when its modal or edit box was opened (history variables)
    muts,      \* delete and update calls: [op, row, target, name, intent, st]
    open,      \* open[i]: row i's Authenticate/Cancel toggle
    openIntent,\* the authenticator row i showed when it was opened (history)
    begins     \* begins sent by Fido mount effects: [authn, intent]

regVars == <<srv, cache, fetch, delOpen, edit, dn, delIntent, editIntent, muts>>
rowVars == <<open, openIntent, begins>>
vars == <<regVars, rowVars>>

AllNames == Names \cup {""}
Snapshot == [ids : Seq(Authns), names : [Authns -> AllNames]]

\* The authenticator the row at index i renders now.
RowAuthn(i) == cache.ids[i]
Rendered(i) == i <= Len(cache.ids)

\* A row's mutation observer is pending for op: the button's loading flag.
RowPending(i, op) ==
    LET M == {m \in DOMAIN muts : muts[m].row = i /\ muts[m].op = op}
    IN  M # {} /\ muts[CHOOSE m \in M : \A n \in M : n <= m].st = "pending"

\* The server removes an authenticator by uid and name; updates the entity.
SrvDelete(s, a) == [s EXCEPT !.ids = SelectSeq(@, LAMBDA x : x # a)]
SrvUpdate(s, a, n) ==
    IF \E i \in DOMAIN s.ids : s.ids[i] = a
    THEN [s EXCEPT !.names[a] = n] ELSE s
SrvHas(s, a) == \E i \in DOMAIN s.ids : s.ids[i] = a

\* Mutant: a fetch in flight is kept instead of being cancelled
\* (cancelRefetch: false).
InvalidateKeepInFlight ==
    fetch' = IF fetch.st = "idle" THEN [st |-> "sent", snap |-> fetch.snap]
             ELSE fetch

\* queryClient.invalidateQueries: the active query refetches; a fetch in
\* flight is cancelled and sent again (cancelRefetch defaults to true).
Invalidate == fetch' = [st |-> "sent", snap |-> fetch.snap]

Init ==
    LET s0 == [ids |-> Order, names |-> [a \in Authns |-> CHOOSE n \in Names : TRUE]]
    IN /\ srv = s0
       /\ cache = s0
       /\ fetch = [st |-> "idle", snap |-> s0]
       /\ delOpen = [i \in Rows |-> FALSE]
       /\ edit = [i \in Rows |-> FALSE]
       /\ dn = [i \in Rows |-> ""]
       /\ delIntent = [i \in Rows |-> NoAuthn]
       /\ editIntent = [i \in Rows |-> NoAuthn]
       /\ muts = <<>>
       /\ open = [i \in Rows |-> FALSE]
       /\ openIntent = [i \in Rows |-> NoAuthn]
       /\ begins = {}

(***************************************************************************)
(* Row gestures                                                            *)
(***************************************************************************)

\* "Delete": isDelete[1].open.
OpenDelete(i) ==
    /\ Rendered(i) /\ ~delOpen[i]
    /\ delOpen' = [delOpen EXCEPT ![i] = TRUE]
    /\ delIntent' = [delIntent EXCEPT ![i] = RowAuthn(i)]
    /\ UNCHANGED <<srv, cache, fetch, edit, dn, editIntent, muts, rowVars>>

\* "Cancel" or closing the modal.
CloseDelete(i) ==
    /\ Rendered(i) /\ delOpen[i]
    /\ delOpen' = [delOpen EXCEPT ![i] = FALSE]
    /\ UNCHANGED <<srv, cache, fetch, edit, dn, delIntent, editIntent, muts, rowVars>>

\* "Yes, Delete" (disabled while loading): deleteAuthenticator with the uid
\* and name of the authn the row renders now.  The modal stays open.
ConfirmDelete(i) ==
    /\ Rendered(i) /\ delOpen[i]
    /\ ~RowPending(i, "delete")
    /\ Len(muts) < MaxMuts
    /\ muts' = Append(muts, [op |-> "delete", row |-> i, target |-> RowAuthn(i),
                             name |-> "", intent |-> delIntent[i], st |-> "pending"])
    /\ UNCHANGED <<srv, cache, fetch, delOpen, edit, dn, delIntent, editIntent, rowVars>>

\* "Authenticate": setOpen(!open) mounts the row's challenge component; a
\* Fido's mount effect sends the begin for the authenticator shown.
OpenRow(i) ==
    /\ Rendered(i) /\ ~open[i]
    /\ open' = [open EXCEPT ![i] = TRUE]
    /\ openIntent' = [openIntent EXCEPT ![i] = RowAuthn(i)]
    /\ begins' = IF Kind[RowAuthn(i)] = "FIDO"
                  THEN begins \cup {[authn |-> RowAuthn(i), intent |-> RowAuthn(i)]}
                  ELSE begins
    /\ UNCHANGED regVars

\* "Cancel": setOpen(!open) unmounts the component.
CancelRow(i) ==
    /\ Rendered(i) /\ open[i]
    /\ open' = [open EXCEPT ![i] = FALSE]
    /\ openIntent' = [openIntent EXCEPT ![i] = NoAuthn]
    /\ UNCHANGED <<regVars, begins>>

\* The edit toggle: setIsEdit(!isEdit).
ToggleEdit(i) ==
    /\ Rendered(i) /\ ~delOpen[i]
    /\ edit' = [edit EXCEPT ![i] = ~@]
    /\ editIntent' = IF edit[i] THEN editIntent
                     ELSE [editIntent EXCEPT ![i] = RowAuthn(i)]
    /\ UNCHANGED <<srv, cache, fetch, delOpen, dn, delIntent, muts, rowVars>>

\* onChange of the name input: setDisplayName(e.target.value).
TypeName(i) ==
    /\ Rendered(i) /\ edit[i]
    /\ \E n \in Names : dn' = [dn EXCEPT ![i] = n]
    /\ UNCHANGED <<srv, cache, fetch, delOpen, edit, delIntent, editIntent, muts, rowVars>>

\* Submit: updateAuthenticator with a clone of the rendered authn whose
\* spec.displayName is the row's displayName state ("" until typed).
SubmitRename(i) ==
    /\ Rendered(i) /\ edit[i]
    /\ Len(muts) < MaxMuts
    /\ muts' = Append(muts, [op |-> "update", row |-> i, target |-> RowAuthn(i),
                             name |-> dn[i], intent |-> editIntent[i], st |-> "pending"])
    /\ UNCHANGED <<srv, cache, fetch, delOpen, edit, dn, delIntent, editIntent, rowVars>>

(***************************************************************************)
(* Server replies                                                          *)
(***************************************************************************)

Apply(m) ==
    IF muts[m].op = "delete" THEN SrvDelete(srv, muts[m].target)
    ELSE SrvUpdate(srv, muts[m].target, muts[m].name)

\* The call succeeds: onSuccess invalidates the list.
MutationOk(m) ==
    /\ muts[m].st = "pending"
    /\ SrvHas(srv, muts[m].target)
    /\ srv' = Apply(m)
    /\ muts' = [muts EXCEPT ![m].st = "done"]
    /\ Invalidate
    /\ UNCHANGED <<cache, delOpen, edit, dn, delIntent, editIntent, rowVars>>

\* The call fails (not found, transport): onError does nothing.
MutationFailed(m) ==
    /\ muts[m].st = "pending"
    /\ muts' = [muts EXCEPT ![m].st = "done"]
    /\ UNCHANGED <<srv, cache, fetch, delOpen, edit, dn, delIntent, editIntent, rowVars>>

\* getAvailableAuthenticator is answered with the server's list.
FetchAnswer ==
    /\ fetch.st = "sent"
    /\ fetch' = [st |-> "answered", snap |-> srv]
    /\ UNCHANGED <<srv, cache, delOpen, edit, dn, delIntent, editIntent, muts, rowVars>>

\* A row that stays open and changes from another kind to a FIDO
\* authenticator unmounts its TOTP and mounts a new Fido, whose mount
\* effect calls mutate(): the begin for the authenticator now shown.
FidoMounts(ids) ==
    {[authn |-> ids[i], intent |-> openIntent[i]] :
        i \in {j \in Rows : j <= Len(ids) /\ open[j]
                           /\ Kind[ids[j]] = "FIDO"
                           /\ Kind[RowAuthn(j)] # "FIDO"}}

\* Mutant: rows past the new end keep their state.
FetchLandKeepRows ==
    /\ fetch.st = "answered"
    /\ cache' = fetch.snap
    /\ fetch' = [fetch EXCEPT !.st = "idle"]
    /\ begins' = begins \cup FidoMounts(fetch.snap.ids)
    /\ UNCHANGED <<srv, delOpen, edit, dn, delIntent, editIntent, muts,
                   open, openIntent>>

\* The data lands and the rows re-render by index.  Rows past the new end
\* unmount and lose their state.
FetchLand ==
    /\ fetch.st = "answered"
    /\ cache' = fetch.snap
    /\ fetch' = [fetch EXCEPT !.st = "idle"]
    /\ LET keep(i) == i <= Len(fetch.snap.ids) IN
       /\ delOpen' = [i \in Rows |-> keep(i) /\ delOpen[i]]
       /\ edit' = [i \in Rows |-> keep(i) /\ edit[i]]
       /\ dn' = [i \in Rows |-> IF keep(i) THEN dn[i] ELSE ""]
       /\ open' = [i \in Rows |-> keep(i) /\ open[i]]
       /\ openIntent' = [i \in Rows |-> IF keep(i) THEN openIntent[i] ELSE NoAuthn]
    /\ begins' = begins \cup FidoMounts(fetch.snap.ids)
    /\ UNCHANGED <<srv, delIntent, editIntent, muts>>

Next ==
    \/ \E i \in Rows : OpenRow(i)
    \/ \E i \in Rows : CancelRow(i)
    \/ \E i \in Rows : OpenDelete(i)
    \/ \E i \in Rows : CloseDelete(i)
    \/ \E i \in Rows : ConfirmDelete(i)
    \/ \E i \in Rows : ToggleEdit(i)
    \/ \E i \in Rows : TypeName(i)
    \/ \E i \in Rows : SubmitRename(i)
    \/ \E m \in DOMAIN muts : MutationOk(m)
    \/ \E m \in DOMAIN muts : MutationFailed(m)
    \/ FetchAnswer
    \/ FetchLand

Spec == Init /\ [][Next]_vars

(***************************************************************************)
(* Properties                                                              *)
(***************************************************************************)

\* Type invariant; only a rendered row has an open modal or edit box.
TypeOK ==
    /\ \A i \in Rows : (delOpen[i] \/ edit[i] \/ open[i]) => Rendered(i)
    /\ srv \in Snapshot /\ cache \in Snapshot
    /\ fetch \in [st : {"idle", "sent", "answered"}, snap : Snapshot]
    /\ delOpen \in [Rows -> BOOLEAN] /\ edit \in [Rows -> BOOLEAN]
    /\ dn \in [Rows -> AllNames]
    /\ delIntent \in [Rows -> Authns \cup {NoAuthn}]
    /\ editIntent \in [Rows -> Authns \cup {NoAuthn}]
    /\ muts \in Seq([op : {"delete", "update"}, row : Rows, target : Authns,
                     name : AllNames, intent : Authns \cup {NoAuthn},
                     st : {"pending", "done"}])
    /\ open \in [Rows -> BOOLEAN]
    /\ openIntent \in [Rows -> Authns \cup {NoAuthn}]
    /\ begins \subseteq [authn : Authns, intent : Authns]

\* Every call a row sends (a delete, a rename, or the begin of a challenge
\* its Fido starts on mount) names the authenticator that the row showed
\* when the user opened its confirmation modal, its edit box or its
\* challenge.
RowCallsTargetIntended ==
    LET calls == {[target |-> muts[m].target, intent |-> muts[m].intent] :
                    m \in DOMAIN muts}
                 \cup {[target |-> b.authn, intent |-> b.intent] : b \in begins}
    IN  \A c \in calls : c.target = c.intent

\* Once no call is pending and no refetch is in flight, the rendered list
\* is the server's list: invalidation after each success, with a newer
\* refetch replacing an older one, leaves no stale data behind.
QuiescentCacheFresh ==
    ((\A m \in DOMAIN muts : muts[m].st = "done") /\ fetch.st = "idle")
        => cache = srv

=============================================================================
