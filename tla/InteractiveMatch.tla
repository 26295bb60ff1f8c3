-------------------------- MODULE InteractiveMatch --------------------------
(***************************************************************************)
(* One interactive /match prompt: pick an opponent, pick a score, confirm. *)
(*                                                                         *)
(* The draft lives three times: as an object on the heap of a container,   *)
(* in that container's matchDrafts map, and as a header in the text of the *)
(* prompt message.  A tap carries the text that was on screen when it was  *)
(* made.  It loads the draft from the map, or rebuilds it from that text,  *)
(* waits for the draft's mutex, changes the draft, edits the message and   *)
(* lets the mutex go.  Telegram may deliver a tap to any container.        *)
(*                                                                         *)
(* The map key is fixed: this is one message.  Traffic on other prompts    *)
(* shows only as evictions.  Page numbers and labels are dropped; a nav    *)
(* tap is kept because it leaves the score step.  Participants are never   *)
(* deleted, so an opponent picker that was shown is never empty later.     *)
(***************************************************************************)
EXTENDS Naturals, Sequences

CONSTANTS
    Workers,        \* concurrent invocations of the webhook function
    Containers,     \* warm containers of the webhook function
    DraftIds,       \* heap addresses
    Opponents,      \* participants the owner can pick
    Scores,         \* the score cells
    Pressed,        \* the callbacks of the buttons that ever get pressed
    None,           \* no score, no opponent, no draft, no worker
    Overlap,        \* "none": handlers run alone; "taps": taps overlap one
                    \* another; "all": also with the /match that opens the prompt
    Evictions,      \* whether drafts leave the map under the feet of their owner
    MaxRegistered,  \* bound: how many matches come out of the prompt
    MaxFaults       \* bound: how many calls to Telegram or the store fail

VARIABLES
    text,        \* what the prompt message shows
    opener,      \* the /match that opens the prompt: "idle", "sent", "done"
    home,        \* the container that runs it
    drafts,      \* matchDrafts of each container, at this message
    heap,        \* the draft objects
    mu,          \* who holds the mutex of each draft
    job,         \* what each worker is doing
    registered,  \* history: the matches registered from the prompt, in order
    original,    \* history: the opener's draft has never been dropped or evicted
    faults

vars == <<text, opener, home, drafts, heap, mu, job, registered, original, faults>>

\* A message text without a header, or with that of the opponent step, which
\* carries no selection.
Plain(kind) == [kind |-> kind, opp |-> None, p1 |-> None, p2 |-> None]

Headers == {Plain("opp")} \cup [kind : {"score"}, opp : Opponents,
                                p1 : Scores \cup {None}, p2 : Scores \cup {None}]

Closed == {Plain("cancelled"), Plain("failed"), Plain("summary")}

Texts == Headers \cup Closed \cup {Plain("unsent")}

\* A matchDraft; "stale" says that touchedAt is over matchDraftStaleAfter ago.
Drafts == [isScore : BOOLEAN, opp : Opponents \cup {None},
           p1 : Scores \cup {None}, p2 : Scores \cup {None}, stale : BOOLEAN]

FreshDraft == [isScore |-> FALSE, opp |-> None, p1 |-> None, p2 |-> None, stale |-> FALSE]

Payloads == [kind : {"cancel", "nav", "back", "confirm"}]
            \cup [kind : {"opp"}, opp : Opponents]
            \cup [kind : {"s"}, side : {1, 2}, val : Scores]

Jobs == [at : {"load", "lock", "act", "edit", "fail"}, on : Containers, owner : BOOLEAN,
         payload : Payloads, seen : Headers \cup {Plain("unsent")}, d : DraftIds \cup {None}, view : Texts]

Matches == [opp : Opponents, p1 : Scores, p2 : Scores]

ASSUME InteractiveAssumption ==
    /\ Overlap \in {"none", "taps", "all"}
    /\ Pressed \subseteq Payloads
    /\ Evictions \in BOOLEAN
    /\ MaxRegistered \in Nat
    /\ MaxFaults \in Nat
    /\ None \notin DraftIds \cup Opponents \cup Scores \cup Workers \cup Jobs

TypeOK ==
    /\ text \in Texts
    /\ opener \in {"idle", "sent", "done"}
    /\ home \in Containers
    /\ drafts \in [Containers -> DraftIds \cup {None}]
    /\ heap \in [DraftIds -> Drafts]
    /\ mu \in [DraftIds -> Workers \cup {None}]
    /\ job \in [Workers -> Jobs \cup {None}]
    /\ registered \in Seq([match : Matches, seen : Headers])
    /\ original \in BOOLEAN
    /\ faults \in 0..MaxFaults

Init ==
    /\ text = Plain("unsent")
    /\ opener = "idle"
    /\ home \in Containers
    /\ drafts = [c \in Containers |-> None]
    /\ heap = [d \in DraftIds |-> FreshDraft]
    /\ mu = [d \in DraftIds |-> None]
    /\ job = [w \in Workers |-> None]
    /\ registered = <<>>
    /\ original = TRUE
    /\ faults = 0

-----------------------------------------------------------------------------
(* Headers *)

\* renderOppHeader and renderScoreHeader: what of a draft survives in the text.
Header(draft) ==
    IF draft.isScore
    THEN [kind |-> "score", opp |-> draft.opp, p1 |-> draft.p1, p2 |-> draft.p2]
    ELSE Plain("opp")

\* Mutation: the two sides of the score are read in the wrong order.
ParseSwappingSides(h) ==
    [isScore |-> h.kind = "score", opp |-> h.opp, p1 |-> h.p2, p2 |-> h.p1, stale |-> FALSE]

\* parseDraftFromHeader, and the touchedAt that the restore stamps.
ParseDraftFromHeader(h) ==
    [isScore |-> h.kind = "score", opp |-> h.opp, p1 |-> h.p1, p2 |-> h.p2, stale |-> FALSE]

\* The callbacks on the keyboard that goes with a header.
Buttons(h) ==
    {p \in Payloads :
        \/ p.kind = "cancel"
        \/ h.kind = "opp" /\ p.kind \in {"nav", "opp"}
        \/ h.kind = "score" /\ p.kind \in {"back", "confirm", "s"}}

-----------------------------------------------------------------------------
(* Helpers *)

Busy(w) == job[w] # None

AllIdle == opener # "sent" /\ \A w \in Workers : ~Busy(w)

At(w, step) == Busy(w) /\ job[w].at = step

Goto(w, step) == job' = [job EXCEPT ![w].at = step]

Finish(w) == job' = [job EXCEPT ![w] = None]

\* A heap address nobody refers to any more.
Free(d) ==
    /\ \A c \in Containers : drafts[c] # d
    /\ \A w \in Workers : Busy(w) => job[w].d # d

\* The heap becomes h, less what the garbage collector takes.
Heap(h) == heap' = [d \in DraftIds |-> IF Free(d)' THEN FreshDraft ELSE h[d]]

Unlock(w) == mu' = [mu EXCEPT ![job[w].d] = None]

Drop(c) == drafts' = [drafts EXCEPT ![c] = None]

Fault == faults < MaxFaults /\ faults' = faults + 1

-----------------------------------------------------------------------------
(* startInteractiveMatch *)

\* The picker is on screen before its draft is in the map.
StartInteractiveMatch ==
    /\ opener = "idle"
    /\ opener' = "sent"
    /\ text' = Header(FreshDraft)
    /\ UNCHANGED <<home, drafts, heap, mu, job, registered, original, faults>>

\* storeDraft: overwrites whatever the key holds.
StoreDraft ==
    /\ opener = "sent"
    /\ \E d \in {d \in DraftIds : Free(d)} :
          /\ drafts' = [drafts EXCEPT ![home] = d]
          /\ UNCHANGED job
          /\ Heap([heap EXCEPT ![d] = FreshDraft])
    /\ opener' = "done"
    /\ UNCHANGED <<text, home, mu, registered, original, faults>>

-----------------------------------------------------------------------------
(* A tap *)

\* Someone taps a button that is on screen; the tap is delivered to container c.
Tap(w, c, owner, p) ==
    /\ ~Busy(w)
    /\ text \in Headers
    /\ p \in Buttons(text) \cap Pressed
    /\ Overlap = "none" => AllIdle
    /\ Overlap = "taps" => opener = "done"
    /\ job' = [job EXCEPT ![w] = [at |-> "load", on |-> c, owner |-> owner, payload |-> p,
                                  seen |-> text, d |-> None, view |-> Plain("unsent")]]
    /\ UNCHANGED <<text, opener, home, drafts, heap, mu, registered, original, faults>>

\* loadOrRestoreDraft and the owner check.  A hit is followed by the lazy GC,
\* which may evict the very draft that was hit; a miss rebuilds the draft from
\* the text the tap carries.  Afterwards that text matters only to the history
\* of a Confirm.
LoadOrRestoreDraft(w) ==
    /\ At(w, "load")
    /\ LET j == job[w]
           hit == drafts[j.on]
           kept == IF j.payload.kind = "confirm" THEN j.seen ELSE Plain("unsent")
           next(d) == IF j.owner
                      THEN [job EXCEPT ![w].d = d, ![w].at = "lock", ![w].seen = kept]
                      ELSE [job EXCEPT ![w] = None]
       IN  \/ /\ hit # None
              /\ job' = next(hit)
              /\ drafts' = IF heap[hit].stale THEN [drafts EXCEPT ![j.on] = None] ELSE drafts
              /\ original' = (original /\ ~heap[hit].stale)
              /\ Heap(heap)
           \/ /\ hit = None
              /\ \E d \in {d \in DraftIds : Free(d)} :
                    /\ drafts' = [drafts EXCEPT ![j.on] = d]
                    /\ job' = next(d)
                    /\ Heap([heap EXCEPT ![d] = ParseDraftFromHeader(j.seen)])
              /\ original' = FALSE
    /\ UNCHANGED <<text, opener, home, mu, registered, faults>>

\* Mutation: taps on one draft are not serialized.
SkipMutex(w) ==
    /\ At(w, "lock")
    /\ Goto(w, "act")
    /\ UNCHANGED <<text, opener, home, drafts, heap, mu, registered, original, faults>>

\* Fast clicks queue here.
LockDraft(w) ==
    /\ At(w, "lock")
    /\ mu[job[w].d] = None
    /\ mu' = [mu EXCEPT ![job[w].d] = w]
    /\ Goto(w, "act")
    /\ UNCHANGED <<text, opener, home, drafts, heap, registered, original, faults>>

\* Mutation: picking an opponent moves on without noting who it is.
SelectedForgetsOpponent(draft, p) ==
    CASE p.kind \in {"nav", "back"} -> [draft EXCEPT !.isScore = FALSE]
      [] p.kind = "opp" -> [draft EXCEPT !.isScore = TRUE, !.p1 = None, !.p2 = None]
      [] p.kind = "s" /\ p.side = 1 -> [draft EXCEPT !.p1 = p.val]
      [] p.kind = "s" /\ p.side = 2 -> [draft EXCEPT !.p2 = p.val]

\* What a selection makes of the draft.
Selected(draft, p) ==
    CASE p.kind \in {"nav", "back"} -> [draft EXCEPT !.isScore = FALSE]
      [] p.kind = "opp" -> [draft EXCEPT !.isScore = TRUE, !.opp = p.opp, !.p1 = None, !.p2 = None]
      [] p.kind = "s" /\ p.side = 1 -> [draft EXCEPT !.p1 = p.val]
      [] p.kind = "s" /\ p.side = 2 -> [draft EXCEPT !.p2 = p.val]

\* Score cells and Back mean nothing outside the score step; Confirm wants
\* both sides picked and a winner.
Accepted(draft, p) ==
    CASE p.kind \in {"s", "back"} -> draft.isScore
      [] p.kind = "confirm" ->
            draft.isScore /\ draft.p1 # None /\ draft.p2 # None /\ draft.p1 # draft.p2
      [] OTHER -> TRUE

\* Every dispatched tap counts as "user is here".
Touched(w) == [heap[job[w].d] EXCEPT !.stale = FALSE]

\* The text is rendered now and sent in the next step.
Show(w, v) == job' = [job EXCEPT ![w].at = "edit", ![w].view = v]

Acting(w, kinds) == At(w, "act") /\ job[w].payload.kind \in kinds

\* The tap is only acknowledged.
DispatchIgnored(w) ==
    /\ At(w, "act")
    /\ ~Accepted(heap[job[w].d], job[w].payload)
    /\ Unlock(w)
    /\ Finish(w)
    /\ UNCHANGED <<text, opener, home, drafts, registered, original, faults>>
    /\ Heap([heap EXCEPT ![job[w].d] = Touched(w)])

\* Mutation: the picker is rendered before the draft changes.
SelectAfterRendering(w) ==
    /\ Acting(w, {"nav", "opp", "back", "s"})
    /\ Accepted(heap[job[w].d], job[w].payload)
    /\ heap' = [heap EXCEPT ![job[w].d] = Selected(Touched(w), job[w].payload)]
    /\ Show(w, Header(Touched(w)))
    /\ UNCHANGED <<text, opener, home, drafts, mu, registered, original, faults>>

DispatchSelect(w) ==
    /\ Acting(w, {"nav", "opp", "back", "s"})
    /\ Accepted(heap[job[w].d], job[w].payload)
    /\ LET selected == Selected(Touched(w), job[w].payload)
       IN  /\ heap' = [heap EXCEPT ![job[w].d] = selected]
           /\ Show(w, Header(selected))
    /\ UNCHANGED <<text, opener, home, drafts, mu, registered, original, faults>>

DispatchCancel(w) ==
    /\ Acting(w, {"cancel"})
    /\ heap' = [heap EXCEPT ![job[w].d] = Touched(w)]
    /\ Drop(job[w].on)
    /\ original' = FALSE
    /\ Show(w, Plain("cancelled"))
    /\ UNCHANGED <<text, opener, home, mu, registered, faults>>

\* A match of the draft's players and score, as handleMatch registers one.  The
\* history stops growing at its bound.
RegisterInteractiveMatch(draft, seen) ==
    LET match == [opp |-> draft.opp, p1 |-> draft.p1, p2 |-> draft.p2]
    IN  registered' = IF Len(registered) < MaxRegistered
                      THEN Append(registered, [match |-> match, seen |-> seen])
                      ELSE registered

\* Mutation: the match is registered and the picker shown again.
ConfirmKeepingPicker(w) ==
    /\ Acting(w, {"confirm"})
    /\ Accepted(heap[job[w].d], job[w].payload)
    /\ RegisterInteractiveMatch(heap[job[w].d], job[w].seen)
    /\ Show(w, Header(heap[job[w].d]))
    /\ heap' = [heap EXCEPT ![job[w].d] = Touched(w)]
    /\ Drop(job[w].on)
    /\ original' = FALSE
    /\ UNCHANGED <<text, opener, home, mu, faults>>

\* The match is registered, then the draft dropped.
DispatchConfirm(w) ==
    /\ Acting(w, {"confirm"})
    /\ Accepted(heap[job[w].d], job[w].payload)
    /\ RegisterInteractiveMatch(heap[job[w].d], job[w].seen)
    /\ heap' = [heap EXCEPT ![job[w].d] = Touched(w)]
    /\ Drop(job[w].on)
    /\ original' = FALSE
    /\ Show(w, Plain("summary"))
    /\ UNCHANGED <<text, opener, home, mu, faults>>

\* The edit and the acknowledgement.
EditAndAck(w) ==
    /\ At(w, "edit")
    /\ text' = job[w].view
    /\ Unlock(w)
    /\ Finish(w)
    /\ UNCHANGED <<opener, home, drafts, registered, original, faults>>
    /\ Heap(heap)

-----------------------------------------------------------------------------
(* Faults *)

\* The edit after a registration fails: that is only logged.
SummaryLost(w) ==
    /\ Fault
    /\ At(w, "edit")
    /\ job[w].payload.kind = "confirm"
    /\ Unlock(w)
    /\ Finish(w)
    /\ UNCHANGED <<text, opener, home, drafts, registered, original>>
    /\ Heap(heap)

\* dispatchTap returns an error: of the group lookup or the registration
\* behind a Confirm, of the acknowledgement of an ignored tap, of the edit (or
\* the rendering before it), or of the acknowledgement that follows the edit
\* for Cancel and Confirm.
TapFails(w) ==
    /\ Fault
    /\ \/ /\ At(w, "act")
          /\ job[w].payload.kind = "confirm" \/ ~Accepted(heap[job[w].d], job[w].payload)
          /\ heap' = [heap EXCEPT ![job[w].d] = Touched(w)]
          /\ UNCHANGED text
       \/ /\ At(w, "edit")
          /\ UNCHANGED <<text, heap>>
       \/ /\ At(w, "edit")
          /\ job[w].payload.kind \in {"cancel", "confirm"}
          /\ text' = job[w].view
          /\ UNCHANGED heap
    /\ Goto(w, "fail")
    /\ UNCHANGED <<opener, home, drafts, mu, registered, original>>

\* Mutation: the mutex is not released on the error path.
FailWithoutUnlock(w) ==
    /\ At(w, "fail")
    /\ Drop(job[w].on)
    /\ original' = FALSE
    /\ text' = Plain("failed")
    /\ Finish(w)
    /\ UNCHANGED <<opener, home, mu, registered, faults>>
    /\ Heap(heap)

\* failTapGracefully; its own edit may fail as well.
FailTapGracefully(w) ==
    /\ At(w, "fail")
    /\ Drop(job[w].on)
    /\ original' = FALSE
    /\ \/ text' = Plain("failed") /\ UNCHANGED faults
       \/ Fault /\ UNCHANGED text
    /\ Unlock(w)
    /\ Finish(w)
    /\ UNCHANGED <<opener, home, registered>>
    /\ Heap(heap)

\* The container is recycled between invocations, or a flood of prompts
\* pushes this one over matchDraftMaxEntries.
Evict(c) ==
    /\ Evictions
    /\ drafts[c] # None
    /\ Drop(c)
    /\ original' = FALSE
    /\ UNCHANGED <<text, opener, home, mu, job, registered, faults>>
    /\ Heap(heap)

\* Half an hour without a tap.  No invocation lasts that long.
DraftGoesStale(d) ==
    /\ Evictions
    /\ \E c \in Containers : drafts[c] = d
    /\ \A w \in Workers : Busy(w) => job[w].d # d
    /\ ~heap[d].stale
    /\ heap' = [heap EXCEPT ![d].stale = TRUE]
    /\ UNCHANGED <<text, opener, home, drafts, mu, job, registered, original, faults>>

-----------------------------------------------------------------------------
(* Specification *)

Step(w) ==
    \/ LoadOrRestoreDraft(w) \/ LockDraft(w)
    \/ DispatchIgnored(w) \/ DispatchSelect(w) \/ DispatchCancel(w) \/ DispatchConfirm(w)
    \/ EditAndAck(w) \/ FailTapGracefully(w)

Next ==
    \/ StartInteractiveMatch \/ StoreDraft
    \/ \E w \in Workers :
          \/ \E c \in Containers, owner \in BOOLEAN, p \in Payloads : Tap(w, c, owner, p)
          \/ Step(w)
          \/ SummaryLost(w) \/ TapFails(w)
    \/ \E c \in Containers : Evict(c)
    \/ \E d \in DraftIds : DraftGoesStale(d)

Spec == Init /\ [][Next]_vars

\* A handler runs on, and Go's mutex hands itself to a waiter in the end.
Fairness ==
    \A w \in Workers : WF_vars(Step(w)) /\ SF_vars(LockDraft(w))

FairSpec == Spec /\ Fairness

-----------------------------------------------------------------------------
(* Properties *)

\* While the opener's draft is in the map, never dropped nor evicted, taps may
\* overlap as they like: as soon as no tap is between its change and its
\* edit, the message shows the draft, so no selection is lost or shown stale
\* (the per-draft mutex of matchDraft spans the change and the edit).
FastClicksSerialize ==
    LET d == drafts[home]
    IN  /\ original /\ d # None
        /\ \A w \in Workers : At(w, "edit") \/ At(w, "fail") => job[w].d # d
        => text = Header(heap[d])

\* A mutex is held by the tap that works on its draft, and by nobody else: no
\* error path leaves it locked behind, no two taps share a draft, and, since a
\* tap that holds one has no other to wait for, no taps wait in a circle (the
\* deferred Unlock of handleMatchInteractiveCallback).
MutexHeldByWorkingTap ==
    \A d \in DraftIds, w \in Workers :
        mu[d] = w <=> Busy(w) /\ job[w].at \in {"act", "edit", "fail"} /\ job[w].d = d

\* Nobody waits for a draft for ever: every tap is answered, whichever call of
\* whichever tap on the same draft fails (handleMatchInteractiveCallback).
TapsAnswered == \A w \in Workers : Busy(w) ~> ~Busy(w)

\* Between taps, while there are buttons to tap, the header in the message and a
\* draft in a container's map say the same, so it does not matter which of them
\* the next tap starts from (the "mirror" of the design comment).
HeaderMirrorsDraft ==
    AllIdle /\ text \in Headers =>
        \A c \in Containers : drafts[c] # None => text = Header(heap[drafts[c]])

\* What gets registered is the opponent and the score the owner saw when
\* tapping Confirm, through cold starts, evictions and stale drafts.
RegisteredAsShown ==
    \A i \in 1..Len(registered) :
        LET r == registered[i]
        IN  r.seen = [kind |-> "score", opp |-> r.match.opp, p1 |-> r.match.p1, p2 |-> r.match.p2]

\* A prompt registers at most one match.
OneMatchPerPrompt == Len(registered) <= 1

=============================================================================
