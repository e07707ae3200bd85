------------------------------ MODULE SessionAuth -----------------------------
(***************************************************************************)
(* The OCI session that the threads of one runner share (ModuleAdapter of  *)
(* scripts/run_pipeline.py). A request renews it beforehand when the        *)
(* refresh interval has passed, and once more when OCI answers that it has *)
(* expired; ensure_auth probes, refreshes, probes again, and falls back on  *)
(* a login in the browser. Renewals hold a lock, and a request that waited  *)
(* for it looks whether another has renewed the session meanwhile.          *)
(*                                                                         *)
(* The time of the last renewal is a counter: only its order is used.       *)
(***************************************************************************)
EXTENDS Naturals, FiniteSets

CONSTANTS
    Requests,    \* one OCI command each, sent by concurrent workers
    Managed,     \* those of _transport(manage_auth=True); a cancellation is not
    Main,        \* the thread that starts the run
    Nobody,
    MaxLapses,   \* bound: sessions that end, and refresh intervals that pass
    MaxFaults    \* bound: commands that fail for another reason, or time out

ThreadsAreTold == Managed \subseteq Requests /\ Main \notin Requests /\ Nobody \notin Requests \cup {Main}

VARIABLES
    prompting,   \* allow_prompt, and whether browser login has a region
    proactive,   \* auth_refresh_seconds > 0
    valid,       \* OCI: it accepts the session token
    due,         \* the refresh interval has passed since the last renewal
    refreshed,   \* _last_auth_refresh
    owner,       \* of _auth_lock
    at,          \* per thread, the command it is about
    observed,    \* observed_refresh; 0 before the request has looked
    lapses, faults,
    justified,   \* ghost: a lapse, an interval or a failed attempt since the last renewal
    relapsed     \* ghost: requests that saw the session end after a renewal they did not see

options == <<prompting, proactive>>
vars == <<options, valid, due, refreshed, owner, at, observed, lapses, faults, justified, relapsed>>

Threads == Requests \cup {Main}
Ended == {"answered", "failed", "refused"}

\* The session an operator starts with may have expired.
Init ==
    /\ prompting \in BOOLEAN /\ proactive \in BOOLEAN /\ valid \in BOOLEAN
    /\ due = FALSE
    /\ refreshed = 0
    /\ owner = Main
    /\ at = [t \in Threads |-> IF t = Main THEN "probe" ELSE "idle"]
    /\ observed = [t \in Threads |-> 0]
    /\ lapses = 0 /\ faults = 0
    /\ justified = TRUE
    /\ relapsed = {}

Go(t, step) == at' = [at EXCEPT ![t] = step]

\* A command fails, not for want of authentication, or times out.
Fault ==
    /\ faults < MaxFaults
    /\ faults' = faults + 1

-----------------------------------------------------------------------------
(* A request (_transport, _refresh_auth_if_due, run_json).                  *)

\* The workers start when run_command's own login has succeeded.
Begin(r) ==
    /\ at[r] = "idle" /\ at[Main] = "answered"
    /\ Go(r, IF r \in Managed /\ due THEN "refresh if due" ELSE "look")
    /\ UNCHANGED <<options, valid, due, refreshed, owner, observed, lapses, faults, justified, relapsed>>

\* The interval is read again under the lock.
RefreshIfDue(r) ==
    /\ at[r] = "refresh if due" /\ owner = Nobody
    /\ IF due
       THEN owner' = r /\ Go(r, "probe")
       ELSE owner' = owner /\ Go(r, "look")
    /\ UNCHANGED <<options, valid, due, refreshed, observed, lapses, faults, justified, relapsed>>

Look(r) ==
    /\ at[r] = "look"
    /\ observed' = [observed EXCEPT ![r] = refreshed]
    /\ Go(r, "send")
    /\ UNCHANGED <<options, valid, due, refreshed, owner, lapses, faults, justified, relapsed>>

\* Without authentication managed, run_json raises at once.
Send(r) ==
    /\ at[r] = "send"
    /\ \/ /\ Go(r, IF valid THEN "answered" ELSE IF r \in Managed THEN "expired" ELSE "failed")
          /\ UNCHANGED faults
       \/ Fault /\ Go(r, "failed")
    /\ UNCHANGED <<options, valid, due, refreshed, owner, observed, lapses, justified, relapsed>>

\* Mutant: the request renews the session whoever has done so meanwhile.
ReauthenticateAlways(r) ==
    /\ at[r] = "expired" /\ owner = Nobody
    /\ owner' = r /\ Go(r, "probe")
    /\ UNCHANGED <<options, valid, due, refreshed, observed, lapses, faults, justified, relapsed>>

\* _reauthenticate(observed_refresh): nothing to do if another has renewed
\* the session since this request looked.
Reauthenticate(r) ==
    /\ at[r] = "expired" /\ owner = Nobody
    /\ IF refreshed > observed[r]
       THEN owner' = owner /\ Go(r, "resend")
       ELSE owner' = r /\ Go(r, "probe")
    /\ UNCHANGED <<options, valid, due, refreshed, observed, lapses, faults, justified, relapsed>>

\* The command is sent a second time and no more.
Resend(r) ==
    /\ at[r] = "resend"
    /\ \/ Go(r, IF valid THEN "answered" ELSE "refused") /\ UNCHANGED faults
       \/ Fault /\ Go(r, "failed")
    /\ UNCHANGED <<options, valid, due, refreshed, owner, observed, lapses, justified, relapsed>>

-----------------------------------------------------------------------------
(* ensure_auth, by the thread t that holds the lock. The first login of the *)
(* run needs none: no other thread runs yet.                                *)

\* _reauthenticate always forces; the first login only with an interval.
Forced(t) == t # Main \/ proactive

Renewed(t) ==
    /\ refreshed' = refreshed + 1
    /\ due' = FALSE
    /\ owner' = Nobody
    /\ Go(t, IF t = Main THEN "answered" ELSE IF observed[t] = 0 THEN "look" ELSE "resend")

Raise(t) ==
    /\ owner' = Nobody
    /\ justified' = TRUE
    /\ Go(t, "failed")
    /\ UNCHANGED <<due, refreshed>>

Keep == UNCHANGED <<due, refreshed, owner>>

Probe(t) ==
    /\ at[t] = "probe"
    /\ \/ valid /\ ~Forced(t) /\ Renewed(t) /\ UNCHANGED <<justified, faults>>
       \/ /\ valid /\ Forced(t)
          /\ Go(t, "refresh") /\ Keep /\ UNCHANGED <<justified, faults>>
       \/ /\ ~valid /\ prompting        \* the operator agrees
          /\ Go(t, "refresh") /\ Keep /\ UNCHANGED <<justified, faults>>
       \/ ~valid /\ Raise(t) /\ UNCHANGED faults
       \/ Fault /\ Raise(t)
    /\ UNCHANGED <<options, valid, observed, lapses, relapsed>>

\* `oci session refresh`; OCI may refuse it for a session that has ended, and
\* carry it out when no answer comes.
Refresh(t) ==
    /\ at[t] = "refresh"
    /\ \/ valid' = TRUE /\ justified' = FALSE /\ Go(t, "revalidate") /\ UNCHANGED faults
       \/ ~valid /\ Go(t, "browser") /\ UNCHANGED <<valid, justified, faults>>
       \/ Fault /\ Go(t, "browser") /\ valid' \in {valid, TRUE} /\ UNCHANGED justified
    /\ Keep
    /\ UNCHANGED <<options, observed, lapses, relapsed>>

Revalidate(t) ==
    /\ at[t] = "revalidate"
    /\ \/ valid /\ Renewed(t) /\ UNCHANGED faults
       \/ ~valid /\ Go(t, "browser") /\ Keep /\ UNCHANGED faults
       \/ Fault /\ Go(t, "browser") /\ Keep
    /\ UNCHANGED <<options, valid, observed, lapses, justified, relapsed>>

\* No prompting, no region, or the operator declines: it raises.
Browser(t) ==
    /\ at[t] = "browser"
    /\ \/ prompting /\ Go(t, "authenticate") /\ Keep /\ UNCHANGED justified
       \/ Raise(t)
    /\ UNCHANGED <<options, valid, observed, lapses, faults, relapsed>>

Authenticate(t) ==
    /\ at[t] = "authenticate"
    /\ \/ /\ valid' = TRUE /\ justified' = FALSE
          /\ Go(t, "last probe") /\ Keep /\ UNCHANGED faults
       \/ Fault /\ Raise(t) /\ valid' \in {valid, TRUE}
    /\ UNCHANGED <<options, observed, lapses, relapsed>>

LastProbe(t) ==
    /\ at[t] = "last probe"
    /\ \/ valid /\ Renewed(t) /\ UNCHANGED <<justified, faults>>
       \/ ~valid /\ Raise(t) /\ UNCHANGED faults
       \/ Fault /\ Raise(t)
    /\ UNCHANGED <<options, valid, observed, lapses, relapsed>>

-----------------------------------------------------------------------------
\* The session ends, whoever uses it.
Lapse ==
    /\ valid /\ lapses < MaxLapses
    /\ valid' = FALSE
    /\ lapses' = lapses + 1
    /\ justified' = TRUE
    /\ relapsed' = relapsed \cup {r \in Requests : observed[r] # 0 /\ refreshed > observed[r]}
    /\ UNCHANGED <<options, due, refreshed, owner, at, observed, faults>>

IntervalPasses ==
    /\ proactive /\ ~due /\ lapses < MaxLapses
    /\ due' = TRUE
    /\ lapses' = lapses + 1
    /\ justified' = TRUE
    /\ UNCHANGED <<options, valid, refreshed, owner, at, observed, faults, relapsed>>

Over ==
    /\ at[Main] = "failed" \/ \A t \in Threads : at[t] \in Ended
    /\ UNCHANGED vars

Request(r) == Begin(r) \/ RefreshIfDue(r) \/ Look(r) \/ Send(r) \/ Reauthenticate(r) \/ Resend(r)

EnsureAuth(t) ==
    Probe(t) \/ Refresh(t) \/ Revalidate(t) \/ Browser(t) \/ Authenticate(t) \/ LastProbe(t)

Next ==
    \/ \E r \in Requests : Request(r)
    \/ \E t \in Threads : EnsureAuth(t)
    \/ Lapse \/ IntervalPasses \/ Over

Spec == Init /\ [][Next]_vars

-----------------------------------------------------------------------------
(* Properties.                                                              *)

\* One renewal serves all who noticed: a worker goes to refresh the session,
\* and to ask the operator, only if since the last renewal the session has
\* ended, its interval has passed, or who tried before it gave up.
RenewedForAReason ==
    \A r \in Requests : at[r] = "probe" => justified

\* A request survives the end of the session; OCI refuses it for good only if
\* the session has ended after a renewal the request had not seen. No renewal
\* is believed that OCI would not confirm.
LapsesAreSurvived ==
    \A r \in Requests : at[r] = "refused" => r \in relapsed

SessionIsShared == RenewedForAReason /\ LapsesAreSurvived
=============================================================================
