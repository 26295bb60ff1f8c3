----------------------- MODULE InteractiveMatchProofs -----------------------
(***************************************************************************)
(* Proofs about the interactive /match prompt, for any number of workers,  *)
(* containers, drafts, opponents and scores.                               *)
(***************************************************************************)
EXTENDS InteractiveMatch, TLAPS

-----------------------------------------------------------------------------
(* The inductive invariants *)

\* A draft in the score step has an opponent.
DraftOK(d) == heap[d].isScore => heap[d].opp \in Opponents

\* A tap has no draft until it has loaded one, and from then on it has; a
\* Confirm, and any tap until then, has the header it was made on.
JobOK(w) ==
    /\ job[w].at = "load" => job[w].d = None
    /\ job[w].at # "load" => job[w].d \in DraftIds
    /\ job[w].at = "load" \/ job[w].payload.kind = "confirm" => job[w].seen \in Headers

TypeInv ==
    /\ TypeOK
    /\ \A d \in DraftIds : DraftOK(d)
    /\ \A w \in Workers : Busy(w) => JobOK(w)

\* From the lock to the end of the tap, the mutex is the tap's own.
Holding(w) == Busy(w) /\ job[w].at \in {"act", "edit", "fail"}

MutexInv == \A w \in Workers : Holding(w) => mu[job[w].d] = w

\* And only a tap on its way from there holds it.
OwnerInv ==
    \A d \in DraftIds, w \in Workers : mu[d] = w => Holding(w) /\ job[w].d = d

\* Until the opener has stored its draft, no tap gets past looking for one.
NothingStored ==
    /\ \A c \in Containers : drafts[c] = None
    /\ \A w \in Workers : Busy(w) => job[w].at = "load"
    /\ opener = "sent" => text = Header(FreshDraft)

\* Afterwards every tap works on the opener's draft, and the message shows it
\* unless a tap has yet to do so.
OriginalStored(d) ==
    /\ d # None
    /\ \A c \in Containers : c # home => drafts[c] = None
    /\ \A w \in Workers : Busy(w) /\ job[w].at # "load" => job[w].d = d
    /\ \A w \in Workers : At(w, "edit") =>
          job[w].view = Header(heap[d]) /\ job[w].payload.kind \notin {"cancel", "confirm"}
    /\ (\A w \in Workers : ~At(w, "edit") /\ ~At(w, "fail")) => text = Header(heap[d])

ClicksInv ==
    /\ MutexInv
    /\ original => IF opener = "done" THEN OriginalStored(drafts[home]) ELSE NothingStored

\* Handlers that run alone: while a tap is under way, the message shows the
\* draft it works on, or it is about to; a match that was registered leaves no
\* buttons.
Alone ==
    /\ opener = "sent" => \A w \in Workers : ~Busy(w)
    /\ \A v, w \in Workers : Busy(v) /\ Busy(w) => v = w

NotOpened ==
    opener # "done" =>
        /\ \A c \in Containers : drafts[c] = None
        /\ \A w \in Workers : ~Busy(w)
        /\ registered = <<>>
        /\ text = IF opener = "sent" THEN Header(FreshDraft) ELSE Plain("unsent")

RegisteredOnce ==
    /\ OneMatchPerPrompt
    /\ registered # <<>> => \/ text \notin Headers /\ \A w \in Workers : ~Busy(w)
                            \/ \E w \in Workers : At(w, "edit") /\ job[w].view \notin Headers

SoloInv ==
    /\ faults = 0
    /\ Alone
    /\ NotOpened
    /\ \A w \in Workers : Busy(w) => text \in Headers /\ job[w].at # "fail"
    /\ RegisteredOnce

\* With one container, the map never lags behind the text.
TapMirrors(w) ==
    /\ job[w].at = "load" => job[w].seen = text
    /\ job[w].at \in {"lock", "act"} =>
          /\ text = Header(heap[job[w].d])
          /\ job[w].payload.kind = "confirm" => job[w].seen = text
    /\ job[w].at = "edit" /\ job[w].view \in Headers => job[w].view = Header(heap[job[w].d])
    /\ job[w].at = "edit" /\ job[w].view \notin Headers => \A c \in Containers : drafts[c] = None
    /\ job[w].at # "load" => \A c \in Containers : drafts[c] \in {None, job[w].d}

MirrorInv ==
    /\ \A w \in Workers : Busy(w) => TapMirrors(w)
    /\ (\A w \in Workers : Busy(w) => job[w].at = "load") /\ text \in Headers =>
          \A c \in Containers : drafts[c] # None => text = Header(heap[drafts[c]])
    /\ RegisteredAsShown

-----------------------------------------------------------------------------
(* Drafts and headers *)

\* A well-formed draft.
Sound(draft) == draft \in Drafts /\ (draft.isScore => draft.opp \in Opponents)

LEMMA FreshSound == Sound(FreshDraft) /\ Header(FreshDraft) = Plain("opp")
BY DEF Sound, FreshDraft, Drafts, Header

\* A draft renders to a header, and its age does not show.
LEMMA HeaderType ==
    ASSUME NEW draft, Sound(draft)
    PROVE  /\ Header(draft) \in Headers
           /\ \A b \in BOOLEAN : /\ Sound([draft EXCEPT !.stale = b])
                                 /\ Header([draft EXCEPT !.stale = b]) = Header(draft)
<1>1. Header(draft) \in Headers
  BY DEF Sound, Drafts, Header, Headers
<1>2. ASSUME NEW b \in BOOLEAN
      PROVE  /\ Sound([draft EXCEPT !.stale = b])
             /\ Header([draft EXCEPT !.stale = b]) = Header(draft)
  BY DEF Sound, Drafts, Header
<1> QED
  BY <1>1, <1>2

\* What a restore reads back is what was rendered.
LEMMA ParseHeader ==
    ASSUME NEW h \in Headers
    PROVE  Sound(ParseDraftFromHeader(h)) /\ Header(ParseDraftFromHeader(h)) = h
<1>1. CASE h = Plain("opp")
  BY <1>1 DEF Plain, ParseDraftFromHeader, Sound, Drafts, Header
<1>2. CASE h \in [kind : {"score"}, opp : Opponents,
                  p1 : Scores \cup {None}, p2 : Scores \cup {None}]
  BY <1>2 DEF ParseDraftFromHeader, Sound, Drafts, Header
<1> QED
  BY <1>1, <1>2 DEF Headers

LEMMA PayloadKinds ==
    ASSUME NEW p \in Payloads
    PROVE  /\ p.kind \in {"cancel", "nav", "back", "confirm", "opp", "s"}
           /\ p.kind = "opp" => p.opp \in Opponents
           /\ p.kind = "s" => p.side \in {1, 2} /\ p.val \in Scores
BY DEF Payloads

LEMMA SelectedSound ==
    ASSUME NEW draft, Sound(draft), NEW p \in Payloads, p.kind \in {"nav", "opp", "back", "s"},
           Accepted(draft, p)
    PROVE  Sound(Selected(draft, p))
<1>1. CASE p.kind \in {"nav", "back"}
  BY <1>1 DEF Selected, Sound, Drafts
<1>2. CASE p.kind = "opp"
  <2>1. Selected(draft, p)
          = [draft EXCEPT !.isScore = TRUE, !.opp = p.opp, !.p1 = None, !.p2 = None]
    BY <1>2 DEF Selected
  <2> QED
    BY <1>2, <2>1, PayloadKinds DEF Sound, Drafts
<1>3. CASE p.kind = "s"
  <2>1. p.side \in {1, 2} /\ p.val \in Scores
    BY <1>3, PayloadKinds
  <2>2. CASE p.side = 1
    BY <1>3, <2>1, <2>2 DEF Selected, Sound, Drafts
  <2>3. CASE p.side = 2
    BY <1>3, <2>1, <2>3 DEF Selected, Sound, Drafts
  <2> QED
    BY <2>1, <2>2, <2>3
<1> QED
  BY <1>1, <1>2, <1>3

LEMMA SoundHeap ==
    ASSUME TypeInv, NEW d \in DraftIds
    PROVE  Sound(heap[d])
BY DEF TypeInv, TypeOK, DraftOK, Sound

LEMMA TouchedSound ==
    ASSUME TypeInv, NEW w \in Workers, job[w].d \in DraftIds
    PROVE  Sound(Touched(w)) /\ Header(Touched(w)) = Header(heap[job[w].d])
BY SoundHeap, HeaderType DEF Touched

\* The heap after a collection.
LEMMA HeapType ==
    ASSUME NEW h, \A d \in DraftIds : Sound(h[d]), Heap(h)
    PROVE  /\ heap' \in [DraftIds -> Drafts]
           /\ \A d \in DraftIds : DraftOK(d)'
           /\ \A d \in DraftIds : ~Free(d)' => heap'[d] = h[d]
<1>1. heap' = [d \in DraftIds |-> IF Free(d)' THEN FreshDraft ELSE h[d]]
  BY DEF Heap
<1>2. \A d \in DraftIds : heap'[d] = IF Free(d)' THEN FreshDraft ELSE h[d]
  BY <1>1
<1>3. \A d \in DraftIds : Sound(heap'[d])
  BY <1>2, FreshSound
<1> QED
  BY <1>1, <1>2, <1>3 DEF Sound, DraftOK

\* The heap after a write to one draft.
LEMMA WriteType ==
    ASSUME TypeInv, NEW k \in DraftIds, NEW draft, Sound(draft)
    PROVE  \A d \in DraftIds :
              /\ [heap EXCEPT ![k] = draft][d] = IF d = k THEN draft ELSE heap[d]
              /\ Sound([heap EXCEPT ![k] = draft][d])
BY SoundHeap DEF TypeInv, TypeOK

-----------------------------------------------------------------------------
(* Jobs *)

JobSteps == {"load", "lock", "act", "edit", "fail"}

LEMMA BusyJob ==
    ASSUME TypeInv, NEW w \in Workers, Busy(w)
    PROVE  job[w] \in Jobs /\ JobOK(w)
BY DEF TypeInv, TypeOK, Busy

\* Where a tap has its draft.
LEMMA LoadedJob ==
    ASSUME TypeInv, NEW w \in Workers, Busy(w), job[w].at # "load"
    PROVE  job[w].d \in DraftIds
BY BusyJob DEF JobOK

LEMMA GotoJob ==
    ASSUME TypeInv, NEW w \in Workers, Busy(w), NEW s \in JobSteps, Goto(w, s)
    PROVE  /\ job' \in [Workers -> Jobs \cup {None}]
           /\ Busy(w)'
           /\ job'[w].at = s /\ job'[w].d = job[w].d /\ job'[w].payload = job[w].payload
           /\ job'[w].seen = job[w].seen /\ job'[w].view = job[w].view /\ job'[w].on = job[w].on
           /\ \A v \in Workers : v # w => job'[v] = job[v]
<1>1. job[w] \in Jobs
  BY BusyJob
<1>2. job'[w] = [job[w] EXCEPT !.at = s] /\ \A v \in Workers : v # w => job'[v] = job[v]
  BY DEF TypeInv, TypeOK, Goto
<1>3. job'[w] \in Jobs
  BY <1>1, <1>2 DEF Jobs, JobSteps
<1>4. job'[w] # None
  BY <1>3, InteractiveAssumption
<1>5. job' \in [Workers -> Jobs \cup {None}]
  BY <1>2, <1>3 DEF TypeInv, TypeOK, Goto
<1>6. /\ job'[w].at = s /\ job'[w].d = job[w].d /\ job'[w].payload = job[w].payload
      /\ job'[w].seen = job[w].seen /\ job'[w].view = job[w].view /\ job'[w].on = job[w].on
  BY <1>1, <1>2 DEF Jobs
<1> QED
  BY <1>2, <1>4, <1>5, <1>6 DEF Busy

LEMMA ShowJob ==
    ASSUME TypeInv, NEW w \in Workers, Busy(w), NEW v \in Texts, Show(w, v)
    PROVE  /\ job' \in [Workers -> Jobs \cup {None}]
           /\ Busy(w)'
           /\ job'[w].at = "edit" /\ job'[w].d = job[w].d /\ job'[w].payload = job[w].payload
           /\ job'[w].seen = job[w].seen /\ job'[w].view = v /\ job'[w].on = job[w].on
           /\ \A x \in Workers : x # w => job'[x] = job[x]
<1>1. job[w] \in Jobs
  BY BusyJob
<1>2. /\ job'[w] = [job[w] EXCEPT !.at = "edit", !.view = v]
      /\ \A x \in Workers : x # w => job'[x] = job[x]
  BY DEF TypeInv, TypeOK, Show
<1>3. job'[w] \in Jobs
  BY <1>1, <1>2 DEF Jobs
<1>4. job'[w] # None
  BY <1>3, InteractiveAssumption
<1>5. job' \in [Workers -> Jobs \cup {None}]
  BY <1>2, <1>3 DEF TypeInv, TypeOK, Show
<1>6. /\ job'[w].at = "edit" /\ job'[w].d = job[w].d /\ job'[w].payload = job[w].payload
      /\ job'[w].seen = job[w].seen /\ job'[w].view = v /\ job'[w].on = job[w].on
  BY <1>1, <1>2 DEF Jobs
<1> QED
  BY <1>2, <1>4, <1>5, <1>6 DEF Busy

LEMMA FinishJob ==
    ASSUME TypeInv, NEW w \in Workers, Finish(w)
    PROVE  /\ job' \in [Workers -> Jobs \cup {None}]
           /\ ~Busy(w)'
           /\ \A v \in Workers : v # w => job'[v] = job[v]
BY DEF TypeInv, TypeOK, Finish, Busy

\* The other workers' jobs stay sound.
LEMMA OthersOK ==
    ASSUME TypeInv, NEW v \in Workers, job'[v] = job[v]
    PROVE  Busy(v)' => JobOK(v)'
BY DEF TypeInv, Busy, JobOK

\* A tap finds the draft in its container's map, or rebuilds it from its text.
LoadHit(w, d) ==
    /\ drafts[job[w].on] = d
    /\ drafts' = IF heap[d].stale THEN [drafts EXCEPT ![job[w].on] = None] ELSE drafts
    /\ original' = (original /\ ~heap[d].stale)
    /\ Heap(heap)

LoadMiss(w, d) ==
    /\ drafts[job[w].on] = None
    /\ Free(d)
    /\ drafts' = [drafts EXCEPT ![job[w].on] = d]
    /\ original' = FALSE
    /\ Heap([heap EXCEPT ![d] = ParseDraftFromHeader(job[w].seen)])

LEMMA LoadedStep ==
    ASSUME TypeInv, NEW w \in Workers, LoadOrRestoreDraft(w)
    PROVE  \E d \in DraftIds :
              /\ LoadHit(w, d) \/ LoadMiss(w, d)
              /\ job' \in [Workers -> Jobs \cup {None}]
              /\ \A v \in Workers : v # w => job'[v] = job[v]
              /\ Busy(w)' => /\ job'[w].at = "lock" /\ job'[w].d = d /\ job'[w].on = job[w].on
                             /\ job'[w].payload = job[w].payload
                             /\ job[w].payload.kind = "confirm" => job'[w].seen = job[w].seen
<1> DEFINE j == job[w]
           kept == IF j.payload.kind = "confirm" THEN j.seen ELSE Plain("unsent")
           next(d) == IF j.owner
                      THEN [job EXCEPT ![w].d = d, ![w].at = "lock", ![w].seen = kept]
                      ELSE [job EXCEPT ![w] = None]
<1>1. Busy(w) /\ job[w].at = "load"
  BY DEF LoadOrRestoreDraft, At
<1>2. job[w] \in Jobs /\ job[w].on \in Containers /\ drafts[job[w].on] \in DraftIds \cup {None}
  BY <1>1, BusyJob DEF Jobs, TypeInv, TypeOK
<1>3. PICK d \in DraftIds : job' = next(d) /\ (LoadHit(w, d) \/ LoadMiss(w, d))
  <2>1. CASE drafts[job[w].on] # None
    BY <1>2, <2>1 DEF LoadOrRestoreDraft, LoadHit
  <2>2. CASE drafts[job[w].on] = None
    BY <2>2 DEF LoadOrRestoreDraft, LoadMiss
  <2> QED
    BY <2>1, <2>2
<1>4. CASE ~j.owner
  <2>1. job' = [job EXCEPT ![w] = None]
    BY <1>3, <1>4
  <2> QED
    BY <1>3, <2>1 DEF TypeInv, TypeOK, Busy
<1>5. CASE j.owner
  <2>1. kept \in Headers \cup {Plain("unsent")}
    BY <1>2 DEF Jobs
  <2>2. job' = [job EXCEPT ![w].d = d, ![w].at = "lock", ![w].seen = kept]
    BY <1>3, <1>5
  <2> HIDE DEF kept
  <2>3. /\ job'[w] = [job[w] EXCEPT !.d = d, !.at = "lock", !.seen = kept]
        /\ \A v \in Workers : v # w => job'[v] = job[v]
    BY <2>2 DEF TypeInv, TypeOK
  <2>4. job'[w] \in Jobs
    BY <1>2, <2>1, <2>3 DEF Jobs
  <2>5. job' \in [Workers -> Jobs \cup {None}]
    BY <2>2, <2>3, <2>4 DEF TypeInv, TypeOK
  <2>6. /\ job'[w].at = "lock" /\ job'[w].d = d /\ job'[w].on = job[w].on
        /\ job'[w].payload = job[w].payload /\ job'[w].seen = kept
    BY <1>2, <2>3 DEF Jobs
  <2> QED
    BY <1>3, <2>3, <2>5, <2>6 DEF kept
<1> QED
  BY <1>4, <1>5

\* A load leaves a sound heap, and the drafts it finds as they are.
LEMMA LoadedHeap ==
    ASSUME TypeInv, NEW w \in Workers, Busy(w), job[w].at = "load", NEW d \in DraftIds,
           LoadHit(w, d) \/ LoadMiss(w, d)
    PROVE  /\ drafts' \in [Containers -> DraftIds \cup {None}]
           /\ heap' \in [DraftIds -> Drafts]
           /\ \A e \in DraftIds : DraftOK(e)'
           /\ \A e \in DraftIds : ~Free(e)' /\ ~(LoadMiss(w, d) /\ e = d) => heap'[e] = heap[e]
           /\ LoadMiss(w, d) /\ ~Free(d)' => Header(heap'[d]) = job[w].seen
<1>1. job[w].on \in Containers /\ job[w].seen \in Headers
  BY BusyJob DEF Jobs, JobOK
<1>2. drafts' \in [Containers -> DraftIds \cup {None}]
  BY <1>1 DEF LoadHit, LoadMiss, TypeInv, TypeOK
<1>3. CASE LoadMiss(w, d)
  <2> DEFINE draft == ParseDraftFromHeader(job[w].seen)
  <2>1. Sound(draft) /\ Header(draft) = job[w].seen
    BY <1>1, ParseHeader
  <2> HIDE DEF draft
  <2>2. \A e \in DraftIds : /\ [heap EXCEPT ![d] = draft][e] = IF e = d THEN draft ELSE heap[e]
                            /\ Sound([heap EXCEPT ![d] = draft][e])
    BY <2>1, WriteType
  <2>3. Heap([heap EXCEPT ![d] = draft])
    BY <1>3 DEF LoadMiss, draft
  <2>4. /\ heap' \in [DraftIds -> Drafts]
        /\ \A e \in DraftIds : DraftOK(e)'
        /\ \A e \in DraftIds : ~Free(e)' => heap'[e] = [heap EXCEPT ![d] = draft][e]
    BY <2>2, <2>3, HeapType
  <2> QED
    BY <1>2, <1>3, <2>1, <2>2, <2>4
<1>4. CASE LoadHit(w, d) /\ ~LoadMiss(w, d)
  <2>1. \A e \in DraftIds : Sound(heap[e])
    BY SoundHeap
  <2>2. Heap(heap)
    BY <1>4 DEF LoadHit
  <2>3. /\ heap' \in [DraftIds -> Drafts]
        /\ \A e \in DraftIds : DraftOK(e)'
        /\ \A e \in DraftIds : ~Free(e)' => heap'[e] = heap[e]
    BY <2>1, <2>2, HeapType
  <2> QED
    BY <1>2, <1>4, <2>3
<1> QED
  BY <1>3, <1>4

\* So does the end of a tap.
LEMMA CollectedHeap ==
    ASSUME TypeInv, Heap(heap)
    PROVE  /\ heap' \in [DraftIds -> Drafts]
           /\ \A d \in DraftIds : DraftOK(d)'
           /\ \A d \in DraftIds : ~Free(d)' => heap'[d] = heap[d]
BY SoundHeap, HeapType

\* A dispatched tap leaves a sound heap, and every header as it was.
LEMMA TouchedHeap ==
    ASSUME TypeInv, NEW w \in Workers, Busy(w), job[w].at # "load",
           \/ heap' = [heap EXCEPT ![job[w].d] = Touched(w)]
           \/ Heap([heap EXCEPT ![job[w].d] = Touched(w)])
    PROVE  /\ heap' \in [DraftIds -> Drafts]
           /\ \A d \in DraftIds : DraftOK(d)'
           /\ \A d \in DraftIds : ~Free(d)' => Header(heap'[d]) = Header(heap[d])
<1>1. PICK k \in DraftIds : k = job[w].d
  BY LoadedJob
<1> DEFINE h == [heap EXCEPT ![k] = Touched(w)]
<1>2. Sound(Touched(w)) /\ Header(Touched(w)) = Header(heap[k])
  BY <1>1, TouchedSound
<1>3. \A d \in DraftIds : h[d] = (IF d = k THEN Touched(w) ELSE heap[d]) /\ Sound(h[d])
  BY <1>2, WriteType
<1>4. \A d \in DraftIds : Header(h[d]) = Header(heap[d])
  BY <1>2, <1>3
<1>5. CASE heap' = h
  BY <1>3, <1>4, <1>5 DEF TypeInv, TypeOK, Sound, DraftOK
<1>6. CASE Heap(h)
  <2> HIDE DEF h
  <2>1. /\ heap' \in [DraftIds -> Drafts]
        /\ \A d \in DraftIds : DraftOK(d)'
        /\ \A d \in DraftIds : ~Free(d)' => heap'[d] = h[d]
    BY <1>3, <1>6, HeapType
  <2> QED
    BY <1>4, <2>1
<1> QED
  BY <1>1, <1>5, <1>6

-----------------------------------------------------------------------------
(* Type correctness *)

LEMMA TypeInit == Init => TypeInv
BY FreshSound, InteractiveAssumption
   DEF Init, TypeInv, TypeOK, Texts, DraftOK, FreshDraft, Drafts, Busy

LEMMA PlainTexts ==
    /\ \A kind \in {"cancelled", "failed", "summary", "unsent"} :
          Plain(kind) \in Texts /\ Plain(kind) \notin Headers
    /\ Headers \subseteq Texts
BY DEF Texts, Closed, Headers, Plain

\* A selection turns the draft into a sound one and is about to show it.
LEMMA SelectStep ==
    ASSUME TypeInv, NEW w \in Workers, DispatchSelect(w)
    PROVE  \E draft : /\ Sound(draft) /\ Header(draft) \in Headers
                      /\ heap' = [heap EXCEPT ![job[w].d] = draft]
                      /\ Show(w, Header(draft))
<1>1. Busy(w) /\ job[w].at # "load"
  BY DEF DispatchSelect, Acting, At
<1>2. PICK k \in DraftIds : k = job[w].d
  BY <1>1, LoadedJob
<1>3. job[w].payload \in Payloads
  BY <1>1, BusyJob DEF Jobs
<1> DEFINE selected == Selected(Touched(w), job[w].payload)
<1>4. /\ job[w].payload.kind \in {"nav", "opp", "back", "s"}
      /\ heap' = [heap EXCEPT ![k] = selected] /\ Show(w, Header(selected))
      /\ Accepted(heap[k], job[w].payload)
  BY <1>2 DEF DispatchSelect, Acting
<1>5. Accepted(Touched(w), job[w].payload)
  <2>1. heap[k] \in Drafts
    BY DEF TypeInv, TypeOK
  <2>2. Touched(w).isScore = heap[k].isScore
    BY <1>2, <2>1 DEF Touched, Drafts
  <2> QED
    BY <1>4, <2>2 DEF Accepted
<1>6. Sound(selected)
  BY <1>2, <1>3, <1>4, <1>5, TouchedSound, SelectedSound
<1> HIDE DEF selected
<1> QED
  BY <1>2, <1>4, <1>6, HeaderType

\* Steps that begin a tap or the prompt, or happen between taps.
LEMMA OutsideTypes ==
    ASSUME TypeInv,
           \/ StartInteractiveMatch \/ StoreDraft
           \/ \E w \in Workers, c \in Containers, owner \in BOOLEAN, p \in Payloads :
                 Tap(w, c, owner, p)
           \/ \E c \in Containers : Evict(c)
           \/ \E d \in DraftIds : DraftGoesStale(d)
    PROVE  TypeInv'
<1>1. CASE StartInteractiveMatch
  <2>1. text' \in Texts
    BY <1>1, FreshSound, HeaderType, PlainTexts DEF StartInteractiveMatch
  <2>2. \A w \in Workers : Busy(w)' => JobOK(w)'
    BY <1>1, OthersOK DEF StartInteractiveMatch
  <2> QED
    BY <1>1, <2>1, <2>2 DEF StartInteractiveMatch, TypeInv, TypeOK, DraftOK
<1>2. CASE StoreDraft
  <2>1. PICK d \in DraftIds :
          /\ Free(d) /\ drafts' = [drafts EXCEPT ![home] = d]
          /\ Heap([heap EXCEPT ![d] = FreshDraft])
    BY <1>2 DEF StoreDraft
  <2>2. \A e \in DraftIds : Sound([heap EXCEPT ![d] = FreshDraft][e])
    BY FreshSound, WriteType
  <2>3. heap' \in [DraftIds -> Drafts] /\ \A e \in DraftIds : DraftOK(e)'
    BY <2>1, <2>2, HeapType
  <2>4. \A w \in Workers : Busy(w)' => JobOK(w)'
    BY <1>2, OthersOK DEF StoreDraft
  <2> QED
    BY <1>2, <2>1, <2>3, <2>4 DEF StoreDraft, TypeInv, TypeOK
<1>3. ASSUME NEW w \in Workers, NEW c \in Containers, NEW owner \in BOOLEAN, NEW p \in Payloads,
             Tap(w, c, owner, p)
      PROVE  TypeInv'
  <2> DEFINE j == [at |-> "load", on |-> c, owner |-> owner, payload |-> p,
                   seen |-> text, d |-> None, view |-> Plain("unsent")]
  <2>1. job' = [job EXCEPT ![w] = j] /\ text \in Headers
    BY <1>3 DEF Tap
  <2>2. j \in Jobs /\ j.at = "load" /\ j.d = None /\ j.seen = text
    BY <2>1, PlainTexts DEF Jobs
  <2> HIDE DEF j
  <2>3. /\ job' \in [Workers -> Jobs \cup {None}] /\ job'[w] = j
        /\ \A v \in Workers : v # w => job'[v] = job[v]
    BY <2>1, <2>2 DEF TypeInv, TypeOK
  <2>4. JobOK(w)'
    BY <2>1, <2>2, <2>3 DEF JobOK
  <2> QED
    BY <1>3, <2>3, <2>4, OthersOK DEF Tap, TypeInv, TypeOK, DraftOK
<1>4. ASSUME NEW c \in Containers, Evict(c)
      PROVE  TypeInv'
  <2>1. heap' \in [DraftIds -> Drafts] /\ \A d \in DraftIds : DraftOK(d)'
    BY <1>4, CollectedHeap DEF Evict
  <2>2. \A w \in Workers : Busy(w)' => JobOK(w)'
    BY <1>4, OthersOK DEF Evict
  <2> QED
    BY <1>4, <2>1, <2>2 DEF Evict, Drop, TypeInv, TypeOK
<1>5. ASSUME NEW d \in DraftIds, DraftGoesStale(d)
      PROVE  TypeInv'
  <2>1. heap' = [heap EXCEPT ![d] = [heap[d] EXCEPT !.stale = TRUE]]
    BY <1>5 DEF DraftGoesStale
  <2>2. Sound([heap[d] EXCEPT !.stale = TRUE])
    BY SoundHeap, HeaderType
  <2>3. \A e \in DraftIds : Sound(heap'[e])
    BY <2>1, <2>2, WriteType
  <2>4. \A w \in Workers : Busy(w)' => JobOK(w)'
    BY <1>5, OthersOK DEF DraftGoesStale
  <2> QED
    BY <1>5, <2>1, <2>3, <2>4 DEF DraftGoesStale, TypeInv, TypeOK, DraftOK, Sound
<1> QED
  BY <1>1, <1>2, <1>3, <1>4, <1>5

LEMMA LoadTypes ==
    ASSUME TypeInv, NEW w \in Workers, LoadOrRestoreDraft(w)
    PROVE  TypeInv'
<1>1. Busy(w) /\ job[w].at = "load"
  BY DEF LoadOrRestoreDraft, At
<1>2. PICK d \in DraftIds :
        /\ LoadHit(w, d) \/ LoadMiss(w, d)
        /\ job' \in [Workers -> Jobs \cup {None}]
        /\ \A v \in Workers : v # w => job'[v] = job[v]
        /\ Busy(w)' => /\ job'[w].at = "lock" /\ job'[w].d = d
                       /\ job'[w].payload = job[w].payload
                       /\ job[w].payload.kind = "confirm" => job'[w].seen = job[w].seen
  BY LoadedStep
<1>3. /\ drafts' \in [Containers -> DraftIds \cup {None}]
      /\ heap' \in [DraftIds -> Drafts] /\ \A e \in DraftIds : DraftOK(e)'
  BY <1>1, <1>2, LoadedHeap
<1>4. Busy(w)' => JobOK(w)'
  BY <1>1, <1>2, BusyJob DEF JobOK
<1>5. original' \in BOOLEAN
  BY <1>2 DEF LoadHit, LoadMiss
<1> QED
  BY <1>2, <1>3, <1>4, <1>5, OthersOK DEF LoadOrRestoreDraft, TypeInv, TypeOK

\* Steps of a tap that has its draft.
LEMMA DispatchTypes ==
    ASSUME TypeInv, NEW w \in Workers,
           \/ LockDraft(w) \/ DispatchIgnored(w) \/ DispatchSelect(w) \/ DispatchCancel(w)
           \/ DispatchConfirm(w)
    PROVE  TypeInv'
<1>1. Busy(w) /\ job[w].at # "load"
  BY DEF LockDraft, DispatchIgnored, DispatchSelect, DispatchCancel, DispatchConfirm, Acting, At
<1>2. job[w] \in Jobs /\ JobOK(w) /\ job[w].payload \in Payloads /\ job[w].on \in Containers
  BY <1>1, BusyJob DEF Jobs
<1>3. PICK k \in DraftIds : k = job[w].d
  BY <1>1, LoadedJob
<1>4. CASE LockDraft(w)
  <2>1. Goto(w, "act") /\ "act" \in JobSteps
    BY <1>4 DEF LockDraft, JobSteps
  <2>2. /\ job' \in [Workers -> Jobs \cup {None}]
        /\ job'[w].at = "act" /\ job'[w].d = k /\ job'[w].payload = job[w].payload
        /\ job'[w].seen = job[w].seen
        /\ \A v \in Workers : v # w => job'[v] = job[v]
    BY <1>1, <1>3, <2>1, GotoJob
  <2>3. JobOK(w)'
    BY <1>2, <2>2 DEF JobOK
  <2> QED
    BY <1>3, <1>4, <2>2, <2>3, OthersOK DEF LockDraft, TypeInv, TypeOK, DraftOK
<1>5. CASE DispatchIgnored(w)
  <2>1. /\ job' \in [Workers -> Jobs \cup {None}] /\ ~Busy(w)'
        /\ \A v \in Workers : v # w => job'[v] = job[v]
    BY <1>5, FinishJob DEF DispatchIgnored
  <2>2. heap' \in [DraftIds -> Drafts] /\ \A d \in DraftIds : DraftOK(d)'
    BY <1>1, <1>5, TouchedHeap DEF DispatchIgnored
  <2> QED
    BY <1>3, <1>5, <2>1, <2>2, OthersOK DEF DispatchIgnored, Unlock, TypeInv, TypeOK
<1>6. CASE DispatchSelect(w)
  <2>1. PICK draft : /\ Sound(draft) /\ Header(draft) \in Headers
                     /\ heap' = [heap EXCEPT ![k] = draft] /\ Show(w, Header(draft))
    BY <1>3, <1>6, SelectStep
  <2>2. Header(draft) \in Texts
    BY <2>1, PlainTexts
  <2>3. /\ job' \in [Workers -> Jobs \cup {None}]
        /\ job'[w].at = "edit" /\ job'[w].d = k /\ job'[w].payload = job[w].payload
        /\ job'[w].seen = job[w].seen
        /\ \A v \in Workers : v # w => job'[v] = job[v]
    BY <1>1, <1>3, <2>1, <2>2, ShowJob
  <2>4. JobOK(w)'
    BY <1>2, <2>3 DEF JobOK
  <2>5. \A d \in DraftIds : Sound(heap'[d])
    BY <2>1, WriteType
  <2>6. heap' \in [DraftIds -> Drafts] /\ \A d \in DraftIds : DraftOK(d)'
    BY <2>1, <2>5 DEF Sound, DraftOK, TypeInv, TypeOK
  <2> QED
    BY <1>6, <2>3, <2>4, <2>6, OthersOK DEF DispatchSelect, TypeInv, TypeOK
<1>7. CASE DispatchCancel(w) \/ DispatchConfirm(w)
  <2>1. /\ heap' = [heap EXCEPT ![job[w].d] = Touched(w)]
        /\ Drop(job[w].on) /\ original' = FALSE
        /\ UNCHANGED <<text, opener, home, mu, faults>>
    BY <1>7 DEF DispatchCancel, DispatchConfirm
  <2>2. heap' \in [DraftIds -> Drafts] /\ \A d \in DraftIds : DraftOK(d)'
    BY <1>1, <2>1, TouchedHeap
  <2>3. PICK v \in Texts : Show(w, v)
    BY <1>7, PlainTexts DEF DispatchCancel, DispatchConfirm
  <2>4. /\ job' \in [Workers -> Jobs \cup {None}]
        /\ job'[w].at = "edit" /\ job'[w].d = k /\ job'[w].payload = job[w].payload
        /\ job'[w].seen = job[w].seen
        /\ \A x \in Workers : x # w => job'[x] = job[x]
    BY <1>1, <1>3, <2>3, ShowJob
  <2>5. JobOK(w)'
    BY <1>2, <2>4 DEF JobOK
  <2>6. registered' \in Seq([match : Matches, seen : Headers])
    <3>1. CASE DispatchCancel(w)
      BY <3>1 DEF DispatchCancel, TypeInv, TypeOK
    <3>2. CASE DispatchConfirm(w)
      <4> DEFINE match == [opp |-> heap[k].opp, p1 |-> heap[k].p1, p2 |-> heap[k].p2]
      <4>1. /\ job[w].payload.kind = "confirm" /\ Accepted(heap[k], job[w].payload)
            /\ RegisterInteractiveMatch(heap[k], job[w].seen)
        BY <1>3, <3>2 DEF DispatchConfirm, Acting
      <4>2. heap[k].isScore /\ heap[k].p1 # None /\ heap[k].p2 # None
        BY <4>1 DEF Accepted
      <4>3. match \in Matches
        BY <4>2 DEF Matches, TypeInv, TypeOK, Drafts, DraftOK
      <4>4. [match |-> match, seen |-> job[w].seen] \in [match : Matches, seen : Headers]
        BY <1>2, <4>1, <4>3 DEF JobOK
      <4>5. registered' \in {registered, Append(registered, [match |-> match, seen |-> job[w].seen])}
        BY <4>1 DEF RegisterInteractiveMatch
      <4> DEFINE entry == [match |-> match, seen |-> job[w].seen]
                 Entries == [match : Matches, seen : Headers]
      <4>6. registered \in Seq(Entries) /\ entry \in Entries
        BY <4>4 DEF TypeInv, TypeOK
      <4>7. registered' \in {registered, Append(registered, entry)}
        BY <4>5
      <4> HIDE DEF match, entry, Entries
      <4>8. registered' \in Seq(Entries)
        BY <4>6, <4>7
      <4> QED
        BY <4>8 DEF Entries
    <3> QED
      BY <1>7, <3>1, <3>2
  <2> QED
    BY <1>2, <2>1, <2>2, <2>4, <2>5, <2>6, OthersOK DEF Drop, TypeInv, TypeOK
<1> QED
  BY <1>4, <1>5, <1>6, <1>7

\* Steps that end a tap, or send it to its end.
LEMMA EndTypes ==
    ASSUME TypeInv, NEW w \in Workers,
           EditAndAck(w) \/ SummaryLost(w) \/ TapFails(w) \/ FailTapGracefully(w)
    PROVE  TypeInv'
<1>1. Busy(w) /\ job[w].at # "load"
  BY DEF EditAndAck, SummaryLost, TapFails, FailTapGracefully, At
<1>2. job[w] \in Jobs /\ JobOK(w) /\ job[w].on \in Containers /\ job[w].view \in Texts
  BY <1>1, BusyJob DEF Jobs
<1>3. PICK k \in DraftIds : k = job[w].d
  BY <1>1, LoadedJob
<1>4. Fault => faults' \in 0..MaxFaults
  BY InteractiveAssumption DEF Fault, TypeInv, TypeOK
<1>5. CASE EditAndAck(w) \/ SummaryLost(w) \/ FailTapGracefully(w)
  <2>1. Finish(w) /\ Heap(heap) /\ Unlock(w)
    BY <1>5 DEF EditAndAck, SummaryLost, FailTapGracefully
  <2>2. /\ job' \in [Workers -> Jobs \cup {None}] /\ ~Busy(w)'
        /\ \A v \in Workers : v # w => job'[v] = job[v]
    BY <2>1, FinishJob
  <2>3. heap' \in [DraftIds -> Drafts] /\ \A d \in DraftIds : DraftOK(d)'
    BY <2>1, CollectedHeap
  <2>4. mu' \in [DraftIds -> Workers \cup {None}]
    BY <1>3, <2>1 DEF Unlock, TypeInv, TypeOK
  <2>5. text' \in Texts /\ faults' \in 0..MaxFaults
    BY <1>2, <1>4, <1>5, PlainTexts DEF EditAndAck, SummaryLost, FailTapGracefully, TypeInv, TypeOK
  <2>6. /\ drafts' \in [Containers -> DraftIds \cup {None}] /\ original' \in BOOLEAN
        /\ UNCHANGED <<opener, home, registered>>
    BY <1>2, <1>5 DEF EditAndAck, SummaryLost, FailTapGracefully, Drop, TypeInv, TypeOK
  <2> QED
    BY <2>2, <2>3, <2>4, <2>5, <2>6, OthersOK DEF TypeInv, TypeOK
<1>6. CASE TapFails(w)
  <2>1. Goto(w, "fail") /\ "fail" \in JobSteps
    BY <1>6 DEF TapFails, JobSteps
  <2>2. /\ job' \in [Workers -> Jobs \cup {None}]
        /\ job'[w].at = "fail" /\ job'[w].d = k /\ job'[w].payload = job[w].payload
        /\ job'[w].seen = job[w].seen
        /\ \A v \in Workers : v # w => job'[v] = job[v]
    BY <1>1, <1>3, <2>1, GotoJob
  <2>3. JobOK(w)'
    BY <1>2, <2>2 DEF JobOK
  <2>4. heap' = heap \/ heap' = [heap EXCEPT ![job[w].d] = Touched(w)]
    BY <1>6 DEF TapFails
  <2>5. heap' \in [DraftIds -> Drafts] /\ \A d \in DraftIds : DraftOK(d)'
    BY <1>1, <2>4, TouchedHeap DEF TypeInv, TypeOK, DraftOK
  <2>6. text' \in Texts
    BY <1>2, <1>6 DEF TapFails, TypeInv, TypeOK
  <2> QED
    BY <1>4, <1>6, <2>2, <2>3, <2>5, <2>6, OthersOK DEF TapFails, TypeInv, TypeOK
<1> QED
  BY <1>5, <1>6

LEMMA TypeStep == TypeInv /\ [Next]_vars => TypeInv'
<1> SUFFICES ASSUME TypeInv, [Next]_vars PROVE TypeInv'
  OBVIOUS
<1>1. CASE UNCHANGED vars
  <2>1. \A w \in Workers : Busy(w)' => JobOK(w)'
    BY <1>1, OthersOK DEF vars
  <2> QED
    BY <1>1, <2>1 DEF vars, TypeInv, TypeOK, DraftOK
<1> QED
  BY <1>1, OutsideTypes, LoadTypes, DispatchTypes, EndTypes DEF Next, Step

\* The draft, the message, the map and the jobs stay well-formed: a draft in
\* the score step has an opponent, and a registered match both scores.
THEOREM PromptTypes == Spec => []TypeOK
<1>1. TypeInv => TypeOK
  BY DEF TypeInv
<1> QED
  BY <1>1, TypeInit, TypeStep, PTL DEF Spec

-----------------------------------------------------------------------------
(* Fast clicks *)

\* Two taps never hold the same draft.
LEMMA OneHolder ==
    ASSUME MutexInv, NEW v \in Workers, NEW w \in Workers, Holding(v), Holding(w),
           job[v].d = job[w].d
    PROVE  v = w
BY DEF MutexInv

LEMMA MutexStep == TypeInv /\ MutexInv /\ [Next]_vars => MutexInv'
<1> SUFFICES ASSUME TypeInv, MutexInv, [Next]_vars PROVE MutexInv'
  OBVIOUS
\* A step that leaves the mutexes alone and lets nobody hold a new draft.
<1>1. ASSUME UNCHANGED mu, NEW w \in Workers,
             \A v \in Workers : v # w => job'[v] = job[v],
             Holding(w)' => Holding(w) /\ job'[w].d = job[w].d
      PROVE  MutexInv'
  BY <1>1 DEF MutexInv, Holding, Busy
<1>2. CASE UNCHANGED <<mu, job>>
  BY <1>2 DEF MutexInv, Holding, Busy
<1>3. ASSUME NEW w \in Workers, NEW c \in Containers, NEW owner \in BOOLEAN, NEW p \in Payloads,
             Tap(w, c, owner, p)
      PROVE  MutexInv'
  <2>1. /\ UNCHANGED mu /\ job'[w].at = "load"
        /\ \A v \in Workers : v # w => job'[v] = job[v]
    BY <1>3 DEF Tap, TypeInv, TypeOK
  <2> QED
    BY <1>1, <2>1 DEF Holding
<1>4. ASSUME NEW w \in Workers, LoadOrRestoreDraft(w)
      PROVE  MutexInv'
  <2>1. UNCHANGED mu
    BY <1>4 DEF LoadOrRestoreDraft
  <2>2. /\ \A v \in Workers : v # w => job'[v] = job[v]
        /\ Busy(w)' => job'[w].at = "lock"
    BY <1>4, LoadedStep
  <2> QED
    BY <1>1, <2>1, <2>2 DEF Holding
<1>5. ASSUME NEW w \in Workers, LockDraft(w)
      PROVE  MutexInv'
  <2>1. Busy(w) /\ job[w].at # "load" /\ Goto(w, "act") /\ "act" \in JobSteps
    BY <1>5 DEF LockDraft, At, JobSteps
  <2>2. PICK k \in DraftIds : k = job[w].d
    BY <2>1, LoadedJob
  <2>3. job'[w].d = k /\ \A v \in Workers : v # w => job'[v] = job[v]
    BY <2>1, <2>2, GotoJob
  <2>4. mu[k] = None /\ mu' = [mu EXCEPT ![k] = w]
    BY <1>5, <2>2 DEF LockDraft
  <2>5. ASSUME NEW v \in Workers, Holding(v)'
        PROVE  mu'[job'[v].d] = v
    <3>1. CASE v = w
      BY <2>2, <2>3, <2>4, <3>1 DEF TypeInv, TypeOK
    <3>2. CASE v # w
      <4>1. Holding(v) /\ job'[v] = job[v] /\ mu[job[v].d] = v
        BY <2>3, <2>5, <3>2 DEF Holding, Busy, MutexInv
      <4>2. job[v].d # k
        BY <2>4, <4>1, InteractiveAssumption
      <4> QED
        BY <2>4, <4>1, <4>2 DEF TypeInv, TypeOK
    <3> QED
      BY <3>1, <3>2
  <2> QED
    BY <2>5 DEF MutexInv
<1>6. ASSUME NEW w \in Workers,
             DispatchSelect(w) \/ DispatchCancel(w) \/ DispatchConfirm(w) \/ TapFails(w)
      PROVE  MutexInv'
  <2>1. Busy(w) /\ Holding(w) /\ UNCHANGED mu
    BY <1>6 DEF DispatchSelect, DispatchCancel, DispatchConfirm, TapFails, Acting, At, Holding
  <2>2. job'[w].d = job[w].d /\ \A v \in Workers : v # w => job'[v] = job[v]
    <3>1. CASE TapFails(w)
      BY <2>1, <3>1, GotoJob DEF TapFails, JobSteps
    <3>2. CASE DispatchSelect(w) \/ DispatchCancel(w) \/ DispatchConfirm(w)
      <4>1. PICK v : Show(w, v)
        BY <3>2 DEF DispatchSelect, DispatchCancel, DispatchConfirm
      <4>2. job[w] \in Jobs
        BY <2>1, BusyJob
      <4>3. /\ job'[w] = [job[w] EXCEPT !.at = "edit", !.view = v]
            /\ \A x \in Workers : x # w => job'[x] = job[x]
        BY <4>1 DEF Show, TypeInv, TypeOK
      <4> QED
        BY <4>2, <4>3 DEF Jobs
    <3> QED
      BY <1>6, <3>1, <3>2
  <2> QED
    BY <1>1, <2>1, <2>2
<1>7. ASSUME NEW w \in Workers,
             DispatchIgnored(w) \/ EditAndAck(w) \/ SummaryLost(w) \/ FailTapGracefully(w)
      PROVE  MutexInv'
  <2>1. Holding(w) /\ Unlock(w) /\ Finish(w)
    BY <1>7 DEF DispatchIgnored, EditAndAck, SummaryLost, FailTapGracefully, At, Holding
  <2>2. ~Busy(w)' /\ \A v \in Workers : v # w => job'[v] = job[v]
    BY <2>1, FinishJob
  <2>3. PICK k \in DraftIds : k = job[w].d /\ mu' = [mu EXCEPT ![k] = None]
    BY <2>1, LoadedJob DEF Holding, Unlock
  <2>4. ASSUME NEW v \in Workers, Holding(v)'
        PROVE  mu'[job'[v].d] = v
    <3>1. v # w /\ job'[v] = job[v] /\ Holding(v)
      BY <2>2, <2>4 DEF Holding, Busy
    <3>2. mu[job[v].d] = v /\ job[v].d # k
      BY <2>1, <2>3, <3>1, OneHolder DEF MutexInv
    <3> QED
      BY <2>3, <3>1, <3>2 DEF TypeInv, TypeOK
  <2> QED
    BY <2>4 DEF MutexInv
<1>8. ASSUME \/ StartInteractiveMatch \/ StoreDraft
             \/ \E c \in Containers : Evict(c)
             \/ \E d \in DraftIds : DraftGoesStale(d)
             \/ UNCHANGED vars
      PROVE  UNCHANGED <<mu, job>>
  BY <1>8 DEF StartInteractiveMatch, StoreDraft, Evict, DraftGoesStale, vars
<1> QED
  BY <1>2, <1>3, <1>4, <1>5, <1>6, <1>7, <1>8 DEF Next, Step

\* The draft in the map is not collected.
LEMMA HomeKept ==
    ASSUME TypeInv, UNCHANGED home, NEW d, drafts'[home] = d
    PROVE  ~Free(d)'
BY DEF Free, TypeInv, TypeOK

\* Steps on the opener's draft that leave what it shows alone, by a worker
\* that is neither about to edit nor stops being so.
LEMMA StoredKept ==
    ASSUME TypeInv, NEW d \in DraftIds, OriginalStored(d), NEW w \in Workers,
           UNCHANGED <<home, drafts, text>>,
           \A v \in Workers : v # w => job'[v] = job[v],
           ~At(w, "edit"), ~At(w, "fail"), ~At(w, "edit")',
           Busy(w)' /\ job'[w].at # "load" => job'[w].d = d,
           Header(heap'[d]) = Header(heap[d])
    PROVE  OriginalStored(d)'
<1>1. \A v \in Workers : v # w => /\ Busy(v)' <=> Busy(v)
                                  /\ \A step : At(v, step)' <=> At(v, step)
  BY DEF Busy, At
<1>2. d # None /\ \A c \in Containers : c # home' => drafts'[c] = None
  BY DEF OriginalStored
<1>3. \A v \in Workers : Busy(v)' /\ job'[v].at # "load" => job'[v].d = d
  BY <1>1 DEF OriginalStored
<1>4. \A v \in Workers : At(v, "edit")' =>
          job'[v].view = Header(heap'[d]) /\ job'[v].payload.kind \notin {"cancel", "confirm"}
  BY <1>1 DEF OriginalStored
<1>5. (\A v \in Workers : ~At(v, "edit")' /\ ~At(v, "fail")') => text' = Header(heap'[d])
  BY <1>1 DEF OriginalStored
<1> QED
  BY <1>2, <1>3, <1>4, <1>5 DEF OriginalStored, Header

\* The opener's draft, in the state after a step that keeps it in the map.
LEMMA StoredNext ==
    ASSUME NEW d, original' => opener' = "done" /\ drafts'[home'] = d /\ OriginalStored(d)'
    PROVE  original' => IF opener' = "done" THEN OriginalStored(drafts[home])' ELSE NothingStored'
BY DEF OriginalStored

\* While no draft is stored, no tap is past looking for one.
LEMMA StoredBefore ==
    ASSUME TypeInv, ClicksInv, original, NEW w \in Workers, Busy(w), job[w].at # "load"
    PROVE  /\ opener = "done"
           /\ job[w].d \in DraftIds /\ drafts[home] = job[w].d
           /\ OriginalStored(job[w].d)
<1>1. opener = "done"
  BY DEF ClicksInv, NothingStored
<1>2. OriginalStored(drafts[home])
  BY <1>1 DEF ClicksInv
<1>3. job[w].d = drafts[home]
  BY <1>2 DEF OriginalStored
<1> QED
  BY <1>1, <1>2, <1>3, LoadedJob

LEMMA OutsideClicks ==
    ASSUME TypeInv, ClicksInv, original',
           \/ StartInteractiveMatch \/ StoreDraft
           \/ \E w \in Workers, c \in Containers, owner \in BOOLEAN, p \in Payloads :
                 Tap(w, c, owner, p)
           \/ \E c \in Containers : Evict(c)
           \/ \E d \in DraftIds : DraftGoesStale(d)
           \/ UNCHANGED vars
    PROVE  IF opener' = "done" THEN OriginalStored(drafts[home])' ELSE NothingStored'
<1>1. original
  BY DEF StartInteractiveMatch, StoreDraft, Tap, Evict, DraftGoesStale, vars
<1>2. CASE StartInteractiveMatch
  <2>1. opener # "done" /\ opener' = "sent" /\ text' = Header(FreshDraft) /\ UNCHANGED <<drafts, job>>
    BY <1>2 DEF StartInteractiveMatch
  <2> QED
    BY <1>1, <2>1 DEF ClicksInv, NothingStored, Busy, Header, FreshDraft
<1>3. CASE StoreDraft
  <2>1. NothingStored /\ text = Header(FreshDraft)
    BY <1>1, <1>3 DEF StoreDraft, ClicksInv, NothingStored
  <2>2. PICK d \in DraftIds :
          /\ drafts' = [drafts EXCEPT ![home] = d]
          /\ Heap([heap EXCEPT ![d] = FreshDraft])
    BY <1>3 DEF StoreDraft
  <2>3. /\ UNCHANGED <<text, home, job>> /\ opener' = "done"
        /\ drafts'[home] = d /\ \A c \in Containers : c # home => drafts'[c] = None
    BY <1>3, <2>1, <2>2 DEF StoreDraft, NothingStored, TypeInv, TypeOK
  <2>4. \A e \in DraftIds : /\ [heap EXCEPT ![d] = FreshDraft][e] = IF e = d THEN FreshDraft ELSE heap[e]
                            /\ Sound([heap EXCEPT ![d] = FreshDraft][e])
    BY FreshSound, WriteType
  <2>5. heap'[d] = FreshDraft
    BY <2>2, <2>3, <2>4, HomeKept, HeapType
  <2>6. \A w \in Workers : Busy(w)' => job'[w].at = "load"
    BY <2>1, <2>3 DEF NothingStored, Busy
  <2>7. d # None
    BY InteractiveAssumption
  <2>8. OriginalStored(d)'
    BY <2>1, <2>3, <2>5, <2>6, <2>7 DEF OriginalStored, At
  <2> QED
    BY <2>3, <2>8, StoredNext
<1>4. ASSUME NEW w \in Workers, NEW c \in Containers, NEW owner \in BOOLEAN, NEW p \in Payloads,
             Tap(w, c, owner, p)
      PROVE  IF opener' = "done" THEN OriginalStored(drafts[home])' ELSE NothingStored'
  <2>1. /\ UNCHANGED <<text, opener, home, drafts, heap>> /\ ~Busy(w)
        /\ job'[w].at = "load" /\ \A v \in Workers : v # w => job'[v] = job[v]
    BY <1>4 DEF Tap, TypeInv, TypeOK
  <2>2. CASE opener = "done"
    <3>1. PICK d : d = drafts[home]
      OBVIOUS
    <3>2. OriginalStored(d) /\ d \in DraftIds
      BY <1>1, <2>2, <3>1 DEF ClicksInv, OriginalStored, TypeInv, TypeOK
    <3>3. OriginalStored(d)'
      BY <2>1, <3>2, StoredKept DEF At
    <3> QED
      BY <2>1, <2>2, <3>1, <3>3, StoredNext
  <2>3. CASE opener # "done"
    BY <1>1, <2>1, <2>3 DEF ClicksInv, NothingStored, Busy, Header
  <2> QED
    BY <2>2, <2>3
<1>5. ASSUME NEW c \in Containers, Evict(c)
      PROVE  FALSE
  BY <1>5 DEF Evict
<1>6. ASSUME NEW e \in DraftIds, DraftGoesStale(e)
      PROVE  IF opener' = "done" THEN OriginalStored(drafts[home])' ELSE NothingStored'
  <2>1. /\ UNCHANGED <<text, opener, home, drafts, job>>
        /\ heap' = [heap EXCEPT ![e] = [heap[e] EXCEPT !.stale = TRUE]]
    BY <1>6 DEF DraftGoesStale
  <2>2. /\ Sound([heap[e] EXCEPT !.stale = TRUE])
        /\ Header([heap[e] EXCEPT !.stale = TRUE]) = Header(heap[e])
    BY SoundHeap, HeaderType
  <2>3. \A d \in DraftIds : Header(heap'[d]) = Header(heap[d])
    BY <2>1, <2>2, WriteType
  <2>4. CASE opener = "done"
    <3>1. PICK d : d = drafts[home]
      OBVIOUS
    <3>2. OriginalStored(d) /\ d \in DraftIds
      BY <1>1, <2>4, <3>1 DEF ClicksInv, OriginalStored, TypeInv, TypeOK
    <3>3. Header(heap'[d]) = Header(heap[d])
      BY <2>3, <3>2
    <3>4. OriginalStored(d)'
      BY <2>1, <3>2, <3>3 DEF OriginalStored, At, Busy, Header
    <3> QED
      BY <2>1, <2>4, <3>1, <3>4, StoredNext
  <2>5. CASE opener # "done"
    BY <1>1, <2>1, <2>5 DEF ClicksInv, NothingStored, Busy, Header
  <2> QED
    BY <2>4, <2>5
<1>7. CASE UNCHANGED vars
  <2>1. UNCHANGED <<text, opener, home, drafts, heap, job>>
    BY <1>7 DEF vars
  <2>2. NothingStored' <=> NothingStored
    BY <2>1 DEF NothingStored, Busy, Header
  <2>3. OriginalStored(drafts[home])' <=> OriginalStored(drafts[home])
    BY <2>1 DEF OriginalStored, At, Busy, Header
  <2> QED
    BY <1>1, <2>1, <2>2, <2>3 DEF ClicksInv
<1> QED
  BY <1>2, <1>3, <1>4, <1>5, <1>6, <1>7

LEMMA LoadClicks ==
    ASSUME TypeInv, ClicksInv, original', NEW w \in Workers, LoadOrRestoreDraft(w)
    PROVE  IF opener' = "done" THEN OriginalStored(drafts[home])' ELSE NothingStored'
<1>1. Busy(w) /\ job[w].at = "load" /\ UNCHANGED <<text, opener, home>>
  BY DEF LoadOrRestoreDraft, At
<1>2. PICK d \in DraftIds :
        /\ LoadHit(w, d) \/ LoadMiss(w, d)
        /\ \A v \in Workers : v # w => job'[v] = job[v]
        /\ Busy(w)' => job'[w].at = "lock" /\ job'[w].d = d
  BY LoadedStep
<1>3. LoadHit(w, d) /\ original /\ UNCHANGED drafts
  BY <1>2 DEF LoadHit, LoadMiss
<1>4. job[w].on \in Containers /\ drafts[job[w].on] = d /\ d # None
  BY <1>1, <1>3, BusyJob, InteractiveAssumption DEF LoadHit, Jobs
<1>5. opener = "done" /\ drafts[home] = d /\ OriginalStored(d)
  BY <1>3, <1>4 DEF ClicksInv, NothingStored, OriginalStored
<1>6. ~Free(d)'
  BY <1>1, <1>3, <1>5, HomeKept
<1>7. heap'[d] = heap[d]
  BY <1>2, <1>3, <1>4, <1>6, <1>1, LoadedHeap DEF LoadMiss
<1>8. ~At(w, "edit") /\ ~At(w, "fail") /\ ~At(w, "edit")'
  BY <1>1, <1>2 DEF At
<1>9. OriginalStored(d)'
  BY <1>1, <1>2, <1>3, <1>5, <1>7, <1>8, StoredKept
<1> QED
  BY <1>1, <1>3, <1>5, <1>9, StoredNext

\* A tap on the opener's draft, from the lock to its end.
LEMMA TapClicks ==
    ASSUME TypeInv, ClicksInv, original', NEW w \in Workers,
           \/ LockDraft(w) \/ DispatchIgnored(w) \/ DispatchSelect(w) \/ DispatchCancel(w)
           \/ DispatchConfirm(w) \/ EditAndAck(w) \/ SummaryLost(w) \/ TapFails(w)
           \/ FailTapGracefully(w)
    PROVE  IF opener' = "done" THEN OriginalStored(drafts[home])' ELSE NothingStored'
<1>1. \/ LockDraft(w) \/ DispatchIgnored(w) \/ DispatchSelect(w)
      \/ EditAndAck(w) \/ SummaryLost(w) \/ TapFails(w)
  BY DEF DispatchCancel, DispatchConfirm, FailTapGracefully
<1>2. original /\ UNCHANGED <<opener, home, drafts>> /\ Busy(w) /\ job[w].at # "load"
  BY <1>1 DEF LockDraft, DispatchIgnored, DispatchSelect, EditAndAck, SummaryLost, TapFails,
              Acting, At
<1>3. PICK d \in DraftIds : d = job[w].d
  BY <1>2, LoadedJob
<1>4. opener = "done" /\ drafts[home] = d /\ OriginalStored(d) /\ ~Free(d)'
  BY <1>2, <1>3, StoredBefore, HomeKept
<1>5. OriginalStored(d)' => IF opener' = "done" THEN OriginalStored(drafts[home])' ELSE NothingStored'
  BY <1>2, <1>4, StoredNext
<1>6. \A v \in Workers : v # w /\ Holding(v) /\ Holding(w) => FALSE
  BY <1>3, <1>4, OneHolder DEF OriginalStored, Holding, ClicksInv
<1>7. CASE LockDraft(w)
  <2>1. Goto(w, "act") /\ "act" \in JobSteps /\ UNCHANGED <<text, heap>> /\ job[w].at = "lock"
    BY <1>7 DEF LockDraft, JobSteps, At
  <2>2. /\ job'[w].at = "act" /\ job'[w].d = d
        /\ \A v \in Workers : v # w => job'[v] = job[v]
    BY <1>2, <1>3, <2>1, GotoJob
  <2>3. ~At(w, "edit") /\ ~At(w, "fail") /\ ~At(w, "edit")'
    BY <2>1, <2>2 DEF At
  <2> QED
    BY <1>2, <1>4, <1>5, <2>1, <2>2, <2>3, StoredKept
<1>8. CASE DispatchIgnored(w)
  <2>1. ~Busy(w)' /\ \A v \in Workers : v # w => job'[v] = job[v]
    BY <1>8, FinishJob DEF DispatchIgnored
  <2>2. Header(heap'[d]) = Header(heap[d])
    BY <1>2, <1>4, <1>8, TouchedHeap DEF DispatchIgnored
  <2>3. ~At(w, "edit") /\ ~At(w, "fail") /\ ~At(w, "edit")' /\ UNCHANGED text
    BY <1>8, <2>1 DEF DispatchIgnored, At
  <2> QED
    BY <1>2, <1>4, <1>5, <2>1, <2>2, <2>3, StoredKept
<1>9. CASE DispatchSelect(w)
  <2>1. PICK draft : /\ Sound(draft) /\ Header(draft) \in Headers
                     /\ heap' = [heap EXCEPT ![d] = draft] /\ Show(w, Header(draft))
    BY <1>3, <1>9, SelectStep
  <2>2. job[w].payload.kind \in {"nav", "opp", "back", "s"} /\ Holding(w)
    BY <1>9 DEF DispatchSelect, Acting, At, Holding
  <2>3. /\ job'[w].at = "edit" /\ job'[w].d = d /\ job'[w].view = Header(draft)
        /\ job'[w].payload = job[w].payload /\ Busy(w)'
        /\ \A v \in Workers : v # w => job'[v] = job[v]
    BY <1>2, <1>3, <2>1, PlainTexts, ShowJob
  <2>4. heap'[d] = draft
    BY <2>1 DEF TypeInv, TypeOK
  <2>5. \A v \in Workers : v # w => ~At(v, "edit")'
    BY <1>6, <2>2, <2>3 DEF Holding, At, Busy
  <2>6. \A v \in Workers : Busy(v)' /\ job'[v].at # "load" => job'[v].d = d
    BY <1>4, <2>3 DEF OriginalStored, Busy
  <2>7. \A v \in Workers : At(v, "edit")' => v = w
    BY <2>5
  <2>8. At(w, "edit")'
    BY <2>3 DEF At
  <2>9. OriginalStored(d)'
    BY <1>2, <1>4, <2>2, <2>3, <2>4, <2>6, <2>7, <2>8 DEF OriginalStored, Header
  <2> QED
    BY <1>5, <2>9
<1>10. CASE EditAndAck(w)
  <2>1. ~Busy(w)' /\ \A v \in Workers : v # w => job'[v] = job[v]
    BY <1>10, FinishJob DEF EditAndAck
  <2>2. heap'[d] = heap[d] /\ text' = job[w].view /\ Holding(w)
    BY <1>4, <1>10, CollectedHeap DEF EditAndAck, Holding, At
  <2>3. job[w].view = Header(heap[d])
    BY <1>4, <1>10 DEF EditAndAck, OriginalStored
  <2>4. \A v \in Workers : ~At(v, "edit")'
    BY <1>6, <2>1, <2>2 DEF Holding, At, Busy
  <2>5. \A v \in Workers : Busy(v)' /\ job'[v].at # "load" => job'[v].d = d
    BY <1>4, <2>1 DEF OriginalStored, Busy
  <2>6. OriginalStored(d)'
    BY <1>2, <1>4, <2>2, <2>3, <2>4, <2>5 DEF OriginalStored, Header
  <2> QED
    BY <1>5, <2>6
<1>11. CASE SummaryLost(w)
  BY <1>4, <1>11 DEF SummaryLost, OriginalStored
<1>12. CASE TapFails(w)
  <2>1. Goto(w, "fail") /\ "fail" \in JobSteps /\ Holding(w)
    BY <1>12 DEF TapFails, JobSteps, Holding, At
  <2>2. /\ job'[w].at = "fail" /\ job'[w].d = d /\ Busy(w)'
        /\ \A v \in Workers : v # w => job'[v] = job[v]
    BY <1>2, <1>3, <2>1, GotoJob
  <2>3. \A v \in Workers : ~At(v, "edit")'
    BY <1>6, <2>1, <2>2 DEF Holding, At, Busy
  <2>4. At(w, "fail")'
    BY <2>2 DEF At
  <2>5. \A v \in Workers : Busy(v)' /\ job'[v].at # "load" => job'[v].d = d
    BY <1>4, <2>2 DEF OriginalStored, Busy
  <2>6. OriginalStored(d)'
    BY <1>2, <1>4, <2>3, <2>4, <2>5 DEF OriginalStored
  <2> QED
    BY <1>5, <2>6
<1> QED
  BY <1>1, <1>7, <1>8, <1>9, <1>10, <1>11, <1>12

LEMMA ClicksStep == TypeInv /\ ClicksInv /\ [Next]_vars => ClicksInv'
<1> SUFFICES ASSUME TypeInv, ClicksInv, [Next]_vars PROVE ClicksInv'
  OBVIOUS
<1>1. MutexInv'
  BY MutexStep DEF ClicksInv
<1>2. original' => IF opener' = "done" THEN OriginalStored(drafts[home])' ELSE NothingStored'
  BY OutsideClicks, LoadClicks, TapClicks DEF Next, Step
<1> QED
  BY <1>1, <1>2 DEF ClicksInv

LEMMA ClicksInit == Init => ClicksInv
BY DEF Init, ClicksInv, MutexInv, Holding, NothingStored, Busy

\* However the taps on a prompt overlap, with each other and with the /match
\* that opens it, whichever of their calls fail and however many workers and
\* containers there are: as long as the opener's draft is the one in use, the
\* message shows it whenever no tap is between its change and its edit.
THEOREM TapsSerialized == Spec => []FastClicksSerialize
<1>1. TypeInv /\ ClicksInv => FastClicksSerialize
  <2> SUFFICES ASSUME TypeInv, ClicksInv, original, drafts[home] # None,
                      \A w \in Workers : At(w, "edit") \/ At(w, "fail") => job[w].d # drafts[home]
               PROVE  text = Header(heap[drafts[home]])
    BY DEF FastClicksSerialize
  <2>1. OriginalStored(drafts[home])
    BY DEF ClicksInv, NothingStored, TypeInv, TypeOK
  <2>2. \A w \in Workers : ~At(w, "edit") /\ ~At(w, "fail")
    BY <2>1 DEF OriginalStored, At
  <2> QED
    BY <2>1, <2>2 DEF OriginalStored
<1> QED
  BY <1>1, TypeInit, TypeStep, ClicksInit, ClicksStep, PTL DEF Spec

-----------------------------------------------------------------------------
(* Mutexes *)

LEMMA OwnerStep == TypeInv /\ MutexInv /\ OwnerInv /\ [Next]_vars => OwnerInv'
<1> SUFFICES ASSUME TypeInv, MutexInv, OwnerInv, [Next]_vars PROVE OwnerInv'
  OBVIOUS
\* A step that leaves the mutexes alone, and a tap that holds one with it.
<1>1. ASSUME UNCHANGED mu, NEW w \in Workers,
             \A v \in Workers : v # w => job'[v] = job[v],
             Holding(w) => Holding(w)' /\ job'[w].d = job[w].d
      PROVE  OwnerInv'
  BY <1>1 DEF OwnerInv, Holding, Busy
<1>2. CASE UNCHANGED <<mu, job>>
  BY <1>2 DEF OwnerInv, Holding, Busy
<1>3. ASSUME NEW w \in Workers, NEW c \in Containers, NEW owner \in BOOLEAN, NEW p \in Payloads,
             Tap(w, c, owner, p)
      PROVE  OwnerInv'
  <2>1. /\ UNCHANGED mu /\ ~Holding(w)
        /\ \A v \in Workers : v # w => job'[v] = job[v]
    BY <1>3 DEF Tap, Holding, TypeInv, TypeOK
  <2> QED
    BY <1>1, <2>1
<1>4. ASSUME NEW w \in Workers, LoadOrRestoreDraft(w)
      PROVE  OwnerInv'
  <2>1. UNCHANGED mu /\ ~Holding(w)
    BY <1>4 DEF LoadOrRestoreDraft, At, Holding
  <2>2. \A v \in Workers : v # w => job'[v] = job[v]
    BY <1>4, LoadedStep
  <2> QED
    BY <1>1, <2>1, <2>2
<1>5. ASSUME NEW w \in Workers, LockDraft(w)
      PROVE  OwnerInv'
  <2>1. /\ Busy(w) /\ ~Holding(w) /\ job[w].at # "load"
        /\ Goto(w, "act") /\ "act" \in JobSteps
    BY <1>5 DEF LockDraft, At, JobSteps, Holding
  <2>2. PICK k \in DraftIds : k = job[w].d
    BY <2>1, LoadedJob
  <2>3. /\ Busy(w)' /\ job'[w].d = k /\ job'[w].at = "act"
        /\ \A v \in Workers : v # w => job'[v] = job[v]
    BY <2>1, <2>2, GotoJob
  <2>4. mu' = [mu EXCEPT ![k] = w] /\ mu \in [DraftIds -> Workers \cup {None}]
    BY <1>5, <2>2 DEF LockDraft, TypeInv, TypeOK
  <2>5. Holding(w)'
    BY <2>3 DEF Holding
  <2>6. ASSUME NEW d \in DraftIds, NEW v \in Workers, mu'[d] = v
        PROVE  Holding(v)' /\ job'[v].d = d
    <3>1. CASE d = k
      BY <2>3, <2>4, <2>5, <2>6, <3>1
    <3>2. CASE d # k
      <4>1. mu[d] = v
        BY <2>4, <2>6, <3>2
      <4>2. Holding(v) /\ job[v].d = d /\ v # w
        BY <2>1, <4>1 DEF OwnerInv
      <4> QED
        BY <2>3, <4>2 DEF Holding, Busy
    <3> QED
      BY <3>1, <3>2
  <2> QED
    BY <2>6 DEF OwnerInv
<1>6. ASSUME NEW w \in Workers,
             DispatchSelect(w) \/ DispatchCancel(w) \/ DispatchConfirm(w) \/ TapFails(w)
      PROVE  OwnerInv'
  <2>1. Busy(w) /\ Holding(w) /\ UNCHANGED mu
    BY <1>6 DEF DispatchSelect, DispatchCancel, DispatchConfirm, TapFails, Acting, At, Holding
  <2>2. /\ Busy(w)' /\ job'[w].d = job[w].d /\ job'[w].at \in {"edit", "fail"}
        /\ \A v \in Workers : v # w => job'[v] = job[v]
    <3>1. CASE TapFails(w)
      BY <2>1, <3>1, GotoJob DEF TapFails, JobSteps
    <3>2. CASE DispatchSelect(w)
      <4>1. PICK v \in Texts : Show(w, v)
        BY <3>2, SelectStep, PlainTexts
      <4> QED
        BY <2>1, <4>1, ShowJob
    <3>3. CASE DispatchCancel(w) \/ DispatchConfirm(w)
      <4>1. PICK v \in Texts : Show(w, v)
        BY <3>3, PlainTexts DEF DispatchCancel, DispatchConfirm
      <4> QED
        BY <2>1, <4>1, ShowJob
    <3> QED
      BY <1>6, <3>1, <3>2, <3>3
  <2>3. Holding(w)'
    BY <2>2 DEF Holding
  <2> QED
    BY <1>1, <2>1, <2>2, <2>3
<1>7. ASSUME NEW w \in Workers,
             DispatchIgnored(w) \/ EditAndAck(w) \/ SummaryLost(w) \/ FailTapGracefully(w)
      PROVE  OwnerInv'
  <2>1. Holding(w) /\ Unlock(w) /\ Finish(w)
    BY <1>7 DEF DispatchIgnored, EditAndAck, SummaryLost, FailTapGracefully, At, Holding
  <2>2. \A v \in Workers : v # w => job'[v] = job[v]
    BY <2>1, FinishJob
  <2>3. PICK k \in DraftIds : k = job[w].d /\ mu' = [mu EXCEPT ![k] = None]
    BY <2>1, LoadedJob DEF Holding, Unlock
  <2>4. ASSUME NEW d \in DraftIds, NEW v \in Workers, mu'[d] = v
        PROVE  Holding(v)' /\ job'[v].d = d
    <3>1. d # k /\ mu[d] = v
      BY <2>3, <2>4, InteractiveAssumption DEF TypeInv, TypeOK
    <3>2. Holding(v) /\ job[v].d = d
      BY <3>1 DEF OwnerInv
    <3>3. v # w
      BY <2>3, <3>1, <3>2
    <3> QED
      BY <2>2, <3>2, <3>3 DEF Holding, Busy
  <2> QED
    BY <2>4 DEF OwnerInv
<1>8. ASSUME \/ StartInteractiveMatch \/ StoreDraft
             \/ \E c \in Containers : Evict(c)
             \/ \E d \in DraftIds : DraftGoesStale(d)
             \/ UNCHANGED vars
      PROVE  UNCHANGED <<mu, job>>
  BY <1>8 DEF StartInteractiveMatch, StoreDraft, Evict, DraftGoesStale, vars
<1> QED
  BY <1>2, <1>3, <1>4, <1>5, <1>6, <1>7, <1>8 DEF Next, Step

LEMMA OwnerInit == Init => OwnerInv
BY InteractiveAssumption DEF Init, OwnerInv

\* Whichever calls fail, in however many containers, and however taps overlap:
\* the mutex of a draft is held by the tap that works on the draft, and by
\* nobody else.
THEOREM MutexesHeld == Spec => []MutexHeldByWorkingTap
<1>1. TypeInv /\ MutexInv /\ OwnerInv => MutexHeldByWorkingTap
  BY DEF MutexHeldByWorkingTap, MutexInv, OwnerInv, Holding
<1>2. Init => MutexInv
  BY DEF Init, MutexInv, Holding, Busy
<1> QED
  BY <1>1, <1>2, TypeInit, TypeStep, MutexStep, OwnerInit, OwnerStep, PTL DEF Spec

-----------------------------------------------------------------------------
(* Handlers that run alone *)

\* The one tap under way.
LEMMA SoloWorker ==
    ASSUME SoloInv, NEW w \in Workers, Busy(w)
    PROVE  /\ \A v \in Workers : Busy(v) => v = w
           /\ opener = "done"
           /\ text \in Headers /\ job[w].at # "fail"
           /\ registered # <<>> => At(w, "edit") /\ job[w].view \notin Headers
<1>1. \A v \in Workers : Busy(v) => v = w
  BY DEF SoloInv, Alone
<1>2. opener = "done"
  BY DEF SoloInv, NotOpened
<1>3. text \in Headers /\ job[w].at # "fail"
  BY DEF SoloInv
<1>4. registered # <<>> => At(w, "edit") /\ job[w].view \notin Headers
  BY <1>1, <1>3 DEF SoloInv, RegisteredOnce, At
<1> QED
  BY <1>1, <1>2, <1>3, <1>4

LEMMA NoFaults ==
    ASSUME TypeInv, SoloInv, MaxFaults = 0
    PROVE  /\ \A w \in Workers : ~SummaryLost(w) /\ ~TapFails(w) /\ ~FailTapGracefully(w)
BY DEF SoloInv, SummaryLost, TapFails, FailTapGracefully, Fault, At

\* A step of the tap under way that leaves the text and the matches alone.
LEMMA SoloGoesOn ==
    ASSUME TypeInv, SoloInv, NEW w \in Workers, Busy(w), ~At(w, "edit"),
           UNCHANGED <<text, opener, registered, faults>>,
           \A v \in Workers : v # w => job'[v] = job[v],
           Busy(w)' => job'[w].at # "fail"
    PROVE  SoloInv'
<1>1. /\ \A v \in Workers : Busy(v) => v = w
      /\ opener = "done" /\ text \in Headers /\ registered = <<>>
  BY SoloWorker
<1>2. \A v \in Workers : Busy(v)' => v = w
  BY <1>1 DEF Busy
<1>3. text' \in Headers /\ registered' = <<>> /\ opener' = "done"
  BY <1>1 DEF Headers
<1>4. Alone' /\ NotOpened'
  BY <1>2, <1>3 DEF Alone, NotOpened
<1>5. RegisteredOnce'
  BY <1>3 DEF RegisteredOnce, OneMatchPerPrompt
<1> QED
  BY <1>2, <1>3, <1>4, <1>5 DEF SoloInv

LEMMA SoloStep ==
    ASSUME TypeInv, SoloInv, Overlap = "none", MaxFaults = 0, [Next]_vars
    PROVE  SoloInv'
<1>1. CASE StartInteractiveMatch \/ StoreDraft
  <2>1. /\ \A w \in Workers : ~Busy(w)'
        /\ registered' = <<>> /\ opener' \in {"sent", "done"} /\ faults' = 0
    BY <1>1 DEF StartInteractiveMatch, StoreDraft, SoloInv, NotOpened, Busy
  <2>2. opener' = "sent" => text' = Header(FreshDraft) /\ UNCHANGED drafts /\ opener # "done"
    BY <1>1 DEF StartInteractiveMatch, StoreDraft
  <2>3. NotOpened'
    BY <2>1, <2>2 DEF SoloInv, NotOpened, Header, FreshDraft
  <2> QED
    BY <2>1, <2>3 DEF SoloInv, Alone, RegisteredOnce, OneMatchPerPrompt
<1>2. ASSUME NEW w \in Workers, NEW c \in Containers, NEW owner \in BOOLEAN, NEW p \in Payloads,
             Tap(w, c, owner, p)
      PROVE  SoloInv'
  <2>1. /\ UNCHANGED <<text, opener, registered, faults>> /\ AllIdle /\ text \in Headers
        /\ job'[w].at = "load" /\ \A v \in Workers : v # w => job'[v] = job[v]
    BY <1>2 DEF Tap, TypeInv, TypeOK
  <2>2. \A v \in Workers : Busy(v)' => v = w
    BY <2>1 DEF AllIdle, Busy
  <2>3. opener = "done" /\ registered = <<>>
    BY <2>1, PlainTexts DEF SoloInv, NotOpened, RegisteredOnce, AllIdle, At, TypeInv, TypeOK
  <2>4. text' \in Headers
    BY <2>1 DEF Headers
  <2> QED
    BY <2>1, <2>2, <2>3, <2>4
       DEF SoloInv, Alone, NotOpened, RegisteredOnce, OneMatchPerPrompt
<1>3. ASSUME NEW w \in Workers, LoadOrRestoreDraft(w)
      PROVE  SoloInv'
  <2>1. Busy(w) /\ ~At(w, "edit") /\ UNCHANGED <<text, opener, registered, faults>>
    BY <1>3 DEF LoadOrRestoreDraft, At
  <2>2. /\ \A v \in Workers : v # w => job'[v] = job[v]
        /\ Busy(w)' => job'[w].at # "fail"
    BY <1>3, LoadedStep
  <2> QED
    BY <2>1, <2>2, SoloGoesOn
<1>4. ASSUME NEW w \in Workers, LockDraft(w)
      PROVE  SoloInv'
  <2>1. /\ Busy(w) /\ ~At(w, "edit") /\ UNCHANGED <<text, opener, registered, faults>>
        /\ Goto(w, "act") /\ "act" \in JobSteps
    BY <1>4 DEF LockDraft, At, JobSteps
  <2>2. job'[w].at # "fail" /\ \A v \in Workers : v # w => job'[v] = job[v]
    BY <2>1, GotoJob
  <2> QED
    BY <2>1, <2>2, SoloGoesOn
<1>5. ASSUME NEW w \in Workers, DispatchIgnored(w)
      PROVE  SoloInv'
  <2>1. Busy(w) /\ ~At(w, "edit") /\ UNCHANGED <<text, opener, registered, faults>>
    BY <1>5 DEF DispatchIgnored, At
  <2>2. ~Busy(w)' /\ \A v \in Workers : v # w => job'[v] = job[v]
    BY <1>5, FinishJob DEF DispatchIgnored
  <2> QED
    BY <2>1, <2>2, SoloGoesOn
<1>6. ASSUME NEW w \in Workers, DispatchSelect(w) \/ DispatchCancel(w)
      PROVE  SoloInv'
  <2>1. Busy(w) /\ ~At(w, "edit") /\ UNCHANGED <<text, opener, registered, faults>>
    BY <1>6 DEF DispatchSelect, DispatchCancel, Acting, At
  <2>2. PICK v \in Texts : Show(w, v)
    BY <1>6, SelectStep, PlainTexts DEF DispatchCancel
  <2>3. job'[w].at # "fail" /\ \A x \in Workers : x # w => job'[x] = job[x]
    BY <2>1, <2>2, ShowJob
  <2> QED
    BY <2>1, <2>3, SoloGoesOn
<1>7. ASSUME NEW w \in Workers, DispatchConfirm(w)
      PROVE  SoloInv'
  <2>1. /\ Busy(w) /\ ~At(w, "edit") /\ UNCHANGED <<text, opener, faults>>
        /\ Show(w, Plain("summary"))
    BY <1>7 DEF DispatchConfirm, Acting, At
  <2>2. /\ \A v \in Workers : Busy(v) => v = w
        /\ opener = "done" /\ text \in Headers /\ registered = <<>>
    BY <2>1, SoloWorker
  <2>3. /\ job'[w].at = "edit" /\ job'[w].view = Plain("summary") /\ Busy(w)'
        /\ \A v \in Workers : v # w => job'[v] = job[v]
    BY <2>1, PlainTexts, ShowJob
  <2>4. \A v \in Workers : Busy(v)' => v = w
    BY <2>2, <2>3 DEF Busy
  <2>5. At(w, "edit")' /\ job'[w].view \notin Headers
    BY <2>3, PlainTexts DEF At
  <2>6. OneMatchPerPrompt'
    BY <1>7, <2>2 DEF DispatchConfirm, RegisterInteractiveMatch, OneMatchPerPrompt
  <2>7. RegisteredOnce'
    BY <2>5, <2>6 DEF RegisteredOnce, Headers
  <2>8. text' \in Headers
    BY <2>1, <2>2 DEF Headers
  <2> QED
    BY <2>1, <2>2, <2>3, <2>4, <2>7, <2>8 DEF SoloInv, Alone, NotOpened
<1>8. ASSUME NEW w \in Workers, EditAndAck(w)
      PROVE  SoloInv'
  <2>1. Busy(w) /\ text' = job[w].view /\ UNCHANGED <<opener, registered, faults>>
    BY <1>8 DEF EditAndAck, At
  <2>2. /\ \A v \in Workers : Busy(v) => v = w
        /\ opener = "done"
        /\ registered # <<>> => job[w].view \notin Headers
    BY <2>1, SoloWorker
  <2>3. ~Busy(w)' /\ \A v \in Workers : v # w => job'[v] = job[v]
    BY <1>8, FinishJob DEF EditAndAck
  <2>4. \A v \in Workers : ~Busy(v)'
    BY <2>2, <2>3 DEF Busy
  <2>5. registered' # <<>> => text' \notin Headers'
    BY <2>1, <2>2 DEF Headers
  <2>6. RegisteredOnce'
    BY <2>1, <2>4, <2>5 DEF SoloInv, RegisteredOnce, OneMatchPerPrompt
  <2> QED
    BY <2>1, <2>2, <2>4, <2>6, SoloWorker DEF SoloInv, Alone, NotOpened
<1>9. ASSUME \/ \E c \in Containers : Evict(c)
             \/ \E d \in DraftIds : DraftGoesStale(d)
             \/ UNCHANGED vars
      PROVE  SoloInv'
  <2>1. UNCHANGED <<text, opener, job, registered, faults>>
    BY <1>9 DEF Evict, DraftGoesStale, vars
  <2>2. \A c \in Containers : drafts[c] = None => drafts'[c] = None
    BY <1>9 DEF Evict, Drop, DraftGoesStale, vars, TypeInv, TypeOK
  <2>3. Alone'
    BY <2>1 DEF SoloInv, Alone, Busy
  <2>4. NotOpened'
    BY <2>1, <2>2 DEF SoloInv, NotOpened, Busy, Header, FreshDraft, Plain
  <2>5. RegisteredOnce'
    BY <2>1 DEF SoloInv, RegisteredOnce, OneMatchPerPrompt, At, Busy, Headers
  <2>6. \A w \in Workers : Busy(w)' => text' \in Headers' /\ job'[w].at # "fail"
    BY <2>1 DEF SoloInv, Busy, Headers
  <2> QED
    BY <2>1, <2>3, <2>4, <2>5, <2>6 DEF SoloInv
<1> QED
  BY <1>1, <1>2, <1>3, <1>4, <1>5, <1>6, <1>7, <1>8, <1>9, NoFaults DEF Next, Step

LEMMA SoloInit == Init => SoloInv
BY DEF Init, SoloInv, Alone, NotOpened, RegisteredOnce, OneMatchPerPrompt, Busy

\* When taps do not overlap and no call fails, a prompt registers at most one
\* match, however often drafts are evicted, go stale or are rebuilt from the
\* message, in however many containers.
THEOREM OneMatch ==
    ASSUME Overlap = "none", MaxFaults = 0
    PROVE  Spec => []OneMatchPerPrompt
<1>1. TypeInv /\ SoloInv /\ [Next]_vars => SoloInv'
  BY SoloStep
<1>2. SoloInv => OneMatchPerPrompt
  BY DEF SoloInv, RegisteredOnce
<1> QED
  BY <1>1, <1>2, TypeInit, TypeStep, SoloInit, PTL DEF Spec

-----------------------------------------------------------------------------
(* One warm container *)

\* A tap that has loaded its draft is under way, and no other.
LEMMA MirrorBusy ==
    ASSUME NEW w \in Workers, Busy(w)', \A v \in Workers : Busy(v)' => v = w,
           job'[w].at # "load", TapMirrors(w)', RegisteredAsShown'
    PROVE  MirrorInv'
BY DEF MirrorInv

\* No tap is under way.
LEMMA MirrorIdle ==
    ASSUME \A v \in Workers : ~Busy(v)', RegisteredAsShown',
           text' \in Headers =>
               \A c \in Containers : drafts'[c] # None => text' = Header(heap'[drafts'[c]])
    PROVE  MirrorInv'
BY DEF MirrorInv, Headers

\* A draft in a map is not collected.
LEMMA MappedKept ==
    ASSUME NEW c \in Containers, NEW d, drafts'[c] = d
    PROVE  ~Free(d)'
BY DEF Free

LEMMA SameRegistered ==
    ASSUME MirrorInv, UNCHANGED registered
    PROVE  RegisteredAsShown'
BY DEF MirrorInv, RegisteredAsShown

\* A load finds, or rebuilds, the draft that is on screen.
LEMMA LoadMirrors ==
    ASSUME TypeInv, SoloInv, MirrorInv, \A c1, c2 \in Containers : c1 = c2,
           NEW w \in Workers, LoadOrRestoreDraft(w)
    PROVE  MirrorInv'
<1>1. /\ Busy(w) /\ job[w].at = "load" /\ UNCHANGED <<text, registered>>
      /\ job[w] \in Jobs
  BY BusyJob DEF LoadOrRestoreDraft, At
<1>2. /\ \A v \in Workers : Busy(v) => v = w
      /\ text \in Headers /\ job[w].seen = text
      /\ job[w].on \in Containers
  BY <1>1, SoloWorker DEF MirrorInv, TapMirrors, Jobs
<1>3. PICK d \in DraftIds :
              /\ LoadHit(w, d) \/ LoadMiss(w, d)
              /\ \A v \in Workers : v # w => job'[v] = job[v]
              /\ Busy(w)' => /\ job'[w].at = "lock" /\ job'[w].d = d
                             /\ job'[w].payload = job[w].payload
                             /\ job[w].payload.kind = "confirm" => job'[w].seen = job[w].seen
  BY LoadedStep
<1>4. d # None
  BY InteractiveAssumption
<1>5. \A c \in Containers : drafts'[c] \in {None, d}
  <2>1. CASE LoadHit(w, d)
    <3>1. \A c \in Containers : drafts[c] = d
      BY <1>2, <2>1 DEF LoadHit
    <3> QED
      BY <2>1, <3>1 DEF LoadHit, TypeInv, TypeOK
  <2>2. CASE LoadMiss(w, d)
    BY <1>2, <2>2 DEF LoadMiss, TypeInv, TypeOK
  <2> QED
    BY <1>3, <2>1, <2>2
<1>6. ~Free(d)' => Header(heap'[d]) = text
  <2>1. CASE LoadHit(w, d)
    <3>1. drafts[job[w].on] = d
      BY <2>1 DEF LoadHit
    <3>2. text = Header(heap[d])
      BY <1>1, <1>2, <1>4, <3>1 DEF MirrorInv
    <3>3. ~LoadMiss(w, d)
      BY <1>4, <3>1 DEF LoadMiss
    <3> QED
      BY <1>1, <1>3, <3>2, <3>3, LoadedHeap
  <2>2. CASE LoadMiss(w, d)
    BY <1>1, <1>2, <2>2, LoadedHeap
  <2> QED
    BY <1>3, <2>1, <2>2
<1>7. RegisteredAsShown'
  BY <1>1, SameRegistered
<1>8. CASE Busy(w)'
  <2>1. ~Free(d)'
    BY <1>3, <1>8 DEF Free
  <2>2. TapMirrors(w)'
    BY <1>1, <1>2, <1>3, <1>5, <1>6, <1>8, <2>1 DEF TapMirrors
  <2>3. \A v \in Workers : Busy(v)' => v = w
    BY <1>2, <1>3 DEF Busy
  <2> QED
    BY <1>3, <1>7, <1>8, <2>2, <2>3, MirrorBusy
<1>9. CASE ~Busy(w)'
  <2>1. \A v \in Workers : ~Busy(v)'
    BY <1>2, <1>3, <1>9 DEF Busy
  <2>2. ASSUME NEW c \in Containers, drafts'[c] # None
        PROVE  text' = Header(heap'[drafts'[c]])
    <3>1. drafts'[c] = d
      BY <1>5, <2>2
    <3>2. ~Free(d)'
      BY <3>1, MappedKept
    <3> QED
      BY <1>1, <1>6, <3>1, <3>2
  <2> QED
    BY <1>7, <2>1, <2>2, MirrorIdle
<1> QED
  BY <1>8, <1>9

\* A tap that waits for the mutex, is ignored, or changes the draft.
LEMMA DraftMirrors ==
    ASSUME TypeInv, SoloInv, MirrorInv, NEW w \in Workers,
           LockDraft(w) \/ DispatchIgnored(w) \/ DispatchSelect(w)
    PROVE  MirrorInv'
<1>1. /\ Busy(w) /\ job[w].at \in {"lock", "act"} /\ UNCHANGED <<text, registered, drafts>>
  BY DEF LockDraft, DispatchIgnored, DispatchSelect, Acting, At
<1>2. PICK k \in DraftIds : k = job[w].d
  BY <1>1, LoadedJob
<1>3. /\ \A v \in Workers : Busy(v) => v = w
      /\ text \in Headers
      /\ text = Header(heap[k])
      /\ job[w].payload.kind = "confirm" => job[w].seen = text
      /\ \A c \in Containers : drafts[c] \in {None, k}
  BY <1>1, <1>2, SoloWorker DEF MirrorInv, TapMirrors
<1>4. RegisteredAsShown'
  BY <1>1, SameRegistered
<1>5. CASE LockDraft(w)
  <2>1. UNCHANGED heap /\ Goto(w, "act") /\ "act" \in JobSteps
    BY <1>5 DEF LockDraft, JobSteps
  <2>2. /\ Busy(w)' /\ job'[w].at = "act" /\ job'[w].d = k /\ job'[w].payload = job[w].payload
        /\ job'[w].seen = job[w].seen /\ \A v \in Workers : v # w => job'[v] = job[v]
    BY <1>1, <1>2, <2>1, GotoJob
  <2>3. TapMirrors(w)'
    BY <1>1, <1>3, <2>1, <2>2 DEF TapMirrors
  <2>4. \A v \in Workers : Busy(v)' => v = w
    BY <1>3, <2>2 DEF Busy
  <2> QED
    BY <1>4, <2>2, <2>3, <2>4, MirrorBusy
<1>6. CASE DispatchIgnored(w)
  <2>1. ~Busy(w)' /\ \A v \in Workers : v # w => job'[v] = job[v]
    BY <1>6, FinishJob DEF DispatchIgnored
  <2>2. \A v \in Workers : ~Busy(v)'
    BY <1>3, <2>1 DEF Busy
  <2>3. Heap([heap EXCEPT ![job[w].d] = Touched(w)])
    BY <1>6 DEF DispatchIgnored
  <2>4. \A d \in DraftIds : ~Free(d)' => Header(heap'[d]) = Header(heap[d])
    BY <1>1, <2>3, TouchedHeap
  <2>5. ASSUME NEW c \in Containers, drafts'[c] # None
        PROVE  text' = Header(heap'[drafts'[c]])
    <3>1. drafts'[c] = k
      BY <1>1, <1>3, <2>5
    <3>2. ~Free(k)'
      BY <3>1, MappedKept
    <3> QED
      BY <1>1, <1>3, <2>4, <3>1, <3>2
  <2> QED
    BY <1>4, <2>2, <2>5, MirrorIdle
<1>7. CASE DispatchSelect(w)
  <2>1. PICK draft : /\ Header(draft) \in Headers
                     /\ heap' = [heap EXCEPT ![k] = draft]
                     /\ Show(w, Header(draft))
    BY <1>2, <1>7, SelectStep
  <2>2. heap'[k] = draft
    BY <2>1 DEF TypeInv, TypeOK
  <2>3. Header(draft) \in Texts
    BY <2>1, PlainTexts
  <2>4. /\ Busy(w)' /\ job'[w].at = "edit" /\ job'[w].d = k /\ job'[w].view = Header(draft)
        /\ \A v \in Workers : v # w => job'[v] = job[v]
    BY <1>1, <1>2, <2>1, <2>3, ShowJob
  <2>5. TapMirrors(w)'
    BY <1>1, <1>3, <2>1, <2>2, <2>4 DEF TapMirrors, Headers
  <2>6. \A v \in Workers : Busy(v)' => v = w
    BY <1>3, <2>4 DEF Busy
  <2> QED
    BY <1>4, <2>4, <2>5, <2>6, MirrorBusy
<1> QED
  BY <1>5, <1>6, <1>7

\* A Cancel or a Confirm empties the map; what a Confirm registers is on screen.
LEMMA ClosingMirrors ==
    ASSUME TypeInv, SoloInv, MirrorInv, \A c1, c2 \in Containers : c1 = c2,
           NEW w \in Workers, DispatchCancel(w) \/ DispatchConfirm(w)
    PROVE  MirrorInv'
<1>1. Busy(w) /\ job[w].at = "act" /\ Drop(job[w].on) /\ job[w] \in Jobs
  BY BusyJob DEF DispatchCancel, DispatchConfirm, Acting, At
<1>2. PICK k \in DraftIds : k = job[w].d
  BY <1>1, LoadedJob
<1>3. /\ \A v \in Workers : Busy(v) => v = w
      /\ text = Header(heap[k])
      /\ job[w].payload.kind = "confirm" => job[w].seen = text
      /\ registered = <<>>
  BY <1>1, <1>2, SoloWorker DEF MirrorInv, TapMirrors, At
<1>4. \A c \in Containers : drafts'[c] = None
  BY <1>1 DEF Jobs, Drop, TypeInv, TypeOK
<1>5. PICK v \in Texts \ Headers : Show(w, v)
  BY PlainTexts DEF DispatchCancel, DispatchConfirm
<1>6. /\ Busy(w)' /\ job'[w].at = "edit" /\ job'[w].view = v
      /\ \A x \in Workers : x # w => job'[x] = job[x]
  BY <1>1, <1>5, ShowJob
<1>7. RegisteredAsShown'
  <2>1. CASE DispatchCancel(w)
    BY <2>1, SameRegistered DEF DispatchCancel
  <2>2. CASE DispatchConfirm(w)
    <3> DEFINE r == [match |-> [opp |-> heap[k].opp, p1 |-> heap[k].p1, p2 |-> heap[k].p2],
                     seen |-> job[w].seen]
    <3>1. heap[k].isScore /\ job[w].payload.kind = "confirm"
      BY <1>2, <2>2 DEF DispatchConfirm, Acting, Accepted
    <3>2. r.seen = [kind |-> "score", opp |-> r.match.opp, p1 |-> r.match.p1, p2 |-> r.match.p2]
      BY <1>3, <3>1 DEF Header
    <3>3. registered' = <<>> \/ registered' = Append(<<>>, r)
      BY <1>2, <1>3, <2>2 DEF DispatchConfirm, RegisterInteractiveMatch
    <3> HIDE DEF r
    <3>4. \A i \in 1..Len(registered') : registered'[i] = r
      BY <3>3
    <3> QED
      BY <3>2, <3>4 DEF RegisteredAsShown
  <2> QED
    BY <2>1, <2>2
<1>8. TapMirrors(w)'
  BY <1>4, <1>5, <1>6 DEF TapMirrors, Headers
<1>9. \A x \in Workers : Busy(x)' => x = w
  BY <1>3, <1>6 DEF Busy
<1> QED
  BY <1>6, <1>7, <1>8, <1>9, MirrorBusy

LEMMA EditMirrors ==
    ASSUME TypeInv, SoloInv, MirrorInv, NEW w \in Workers, EditAndAck(w)
    PROVE  MirrorInv'
<1>1. /\ Busy(w) /\ job[w].at = "edit" /\ text' = job[w].view
      /\ UNCHANGED <<drafts, registered>> /\ Heap(heap)
  BY DEF EditAndAck, At
<1>2. PICK k \in DraftIds : k = job[w].d
  BY <1>1, LoadedJob
<1>3. /\ \A v \in Workers : Busy(v) => v = w
      /\ text' \in Headers => text' = Header(heap[k])
      /\ text' \notin Headers => \A c \in Containers : drafts[c] = None
      /\ \A c \in Containers : drafts[c] \in {None, k}
  BY <1>1, <1>2, SoloWorker DEF MirrorInv, TapMirrors
<1>4. ~Busy(w)' /\ \A v \in Workers : v # w => job'[v] = job[v]
  BY FinishJob DEF EditAndAck
<1>5. \A v \in Workers : ~Busy(v)'
  BY <1>3, <1>4 DEF Busy
<1>6. ASSUME NEW c \in Containers, drafts'[c] # None
      PROVE  text' = Header(heap'[drafts'[c]])
  <2>1. drafts'[c] = k /\ text' = Header(heap[k])
    BY <1>1, <1>3, <1>6
  <2>2. ~Free(k)'
    BY <2>1, MappedKept
  <2> QED
    BY <1>1, <2>1, <2>2, CollectedHeap
<1> QED
  BY <1>1, <1>5, <1>6, MirrorIdle, SameRegistered

\* The opener, and what happens between taps or under the feet of one.
LEMMA OutsideMirrors ==
    ASSUME TypeInv, SoloInv, MirrorInv, Overlap = "none",
           \/ StartInteractiveMatch \/ StoreDraft
           \/ \E w \in Workers, c \in Containers, owner \in BOOLEAN, p \in Payloads :
                 Tap(w, c, owner, p)
           \/ \E c \in Containers : Evict(c)
           \/ \E d \in DraftIds : DraftGoesStale(d)
           \/ UNCHANGED vars
    PROVE  MirrorInv'
<1>1. CASE StartInteractiveMatch
  BY <1>1, MirrorIdle, SameRegistered DEF StartInteractiveMatch, SoloInv, NotOpened, Busy
<1>2. CASE StoreDraft
  <2>1. PICK d \in DraftIds :
              /\ drafts' = [drafts EXCEPT ![home] = d]
              /\ Heap([heap EXCEPT ![d] = FreshDraft])
    BY <1>2 DEF StoreDraft
  <2>2. /\ UNCHANGED <<text, job, registered>>
        /\ text = Header(FreshDraft)
        /\ \A w \in Workers : ~Busy(w)
        /\ \A c \in Containers : drafts[c] = None
    BY <1>2 DEF StoreDraft, SoloInv, NotOpened
  <2>3. \A e \in DraftIds :
              /\ [heap EXCEPT ![d] = FreshDraft][e] = IF e = d THEN FreshDraft ELSE heap[e]
              /\ Sound([heap EXCEPT ![d] = FreshDraft][e])
    BY FreshSound, WriteType
  <2>4. ~Free(d)' => heap'[d] = FreshDraft
    BY <2>1, <2>3, HeapType
  <2>5. ASSUME NEW c \in Containers, drafts'[c] # None
        PROVE  text' = Header(heap'[drafts'[c]])
    <3>1. drafts'[c] = d
      BY <2>1, <2>2, <2>5 DEF TypeInv, TypeOK
    <3>2. ~Free(d)'
      BY <3>1, MappedKept
    <3> QED
      BY <2>2, <2>4, <3>1, <3>2
  <2> QED
    BY <2>2, <2>5, MirrorIdle, SameRegistered DEF Busy
<1>3. ASSUME NEW w \in Workers, NEW c \in Containers, NEW owner \in BOOLEAN, NEW p \in Payloads,
             Tap(w, c, owner, p)
      PROVE  MirrorInv'
  <2>1. /\ UNCHANGED <<text, drafts, heap, registered>>
        /\ \A v \in Workers : ~Busy(v)
        /\ job'[w].at = "load" /\ job'[w].seen = text
        /\ \A v \in Workers : v # w => job'[v] = job[v]
    BY <1>3 DEF Tap, AllIdle, TypeInv, TypeOK
  <2>2. \A v \in Workers : Busy(v)' => v = w
    BY <2>1 DEF Busy
  <2>3. TapMirrors(w)'
    BY <2>1 DEF TapMirrors
  <2>4. text \in Headers =>
            \A b \in Containers : drafts[b] # None => text = Header(heap[drafts[b]])
    BY <2>1 DEF MirrorInv
  <2>5. RegisteredAsShown'
    BY <2>1, SameRegistered
  <2> QED
    BY <2>1, <2>2, <2>3, <2>4, <2>5 DEF MirrorInv, Headers
<1>4. ASSUME UNCHANGED <<text, job, registered>>,
             \A c \in Containers : drafts'[c] \in {None, drafts[c]},
             \A d \in DraftIds : ~Free(d)' => Header(heap'[d]) = Header(heap[d])
      PROVE  MirrorInv'
  <2>1. RegisteredAsShown'
    BY <1>4, SameRegistered
  <2>2. ASSUME NEW w \in Workers, Busy(w)'
        PROVE  TapMirrors(w)'
    <3>1. Busy(w) /\ TapMirrors(w) /\ job'[w] = job[w]
      BY <1>4, <2>2 DEF Busy, MirrorInv
    <3>2. job[w].at # "load" => Header(heap'[job[w].d]) = Header(heap[job[w].d])
      <4> SUFFICES ASSUME job[w].at # "load"
                   PROVE  Header(heap'[job[w].d]) = Header(heap[job[w].d])
        OBVIOUS
      <4>1. PICK k \in DraftIds : k = job[w].d
        BY <3>1, LoadedJob
      <4>2. ~Free(k)'
        BY <2>2, <3>1, <4>1 DEF Free
      <4> QED
        BY <1>4, <4>1, <4>2
    <3>3. /\ job'[w].at = "load" => job'[w].seen = text'
          /\ job'[w].at \in {"lock", "act"} =>
                /\ text' = Header(heap'[job'[w].d])
                /\ job'[w].payload.kind = "confirm" => job'[w].seen = text'
      BY <1>4, <3>1, <3>2 DEF TapMirrors
    <3>4. /\ job'[w].at = "edit" /\ job'[w].view \in Headers =>
                job'[w].view = Header(heap'[job'[w].d])
          /\ job'[w].at = "edit" /\ job'[w].view \notin Headers =>
                \A c \in Containers : drafts'[c] = None
          /\ job'[w].at # "load" => \A c \in Containers : drafts'[c] \in {None, job'[w].d}
      BY <1>4, <3>1, <3>2 DEF TapMirrors
    <3> QED
      BY <3>3, <3>4 DEF TapMirrors, Headers
  <2>3. ASSUME \A w \in Workers : Busy(w)' => job'[w].at = "load", text' \in Headers,
               NEW c \in Containers, drafts'[c] # None
        PROVE  text' = Header(heap'[drafts'[c]])
    <3>1. /\ \A w \in Workers : Busy(w) => job[w].at = "load"
          /\ drafts'[c] = drafts[c] /\ text \in Headers
      BY <1>4, <2>3 DEF Busy
    <3>2. text = Header(heap[drafts[c]])
      BY <2>3, <3>1 DEF MirrorInv
    <3>3. PICK k \in DraftIds : k = drafts[c]
      BY <2>3, <3>1 DEF TypeInv, TypeOK
    <3>4. ~Free(k)'
      BY <3>1, <3>3, MappedKept
    <3> QED
      BY <1>4, <3>1, <3>2, <3>3, <3>4
  <2> QED
    BY <2>1, <2>2, <2>3 DEF MirrorInv, Headers
<1>5. ASSUME NEW c \in Containers, Evict(c)
      PROVE  MirrorInv'
  <2>1. UNCHANGED <<text, job, registered>> /\ Heap(heap) /\ Drop(c)
    BY <1>5 DEF Evict
  <2>2. \A b \in Containers : drafts'[b] \in {None, drafts[b]}
    BY <2>1 DEF Drop, TypeInv, TypeOK
  <2> QED
    BY <1>4, <2>1, <2>2, CollectedHeap
<1>6. ASSUME NEW d \in DraftIds, DraftGoesStale(d)
      PROVE  MirrorInv'
  <2>1. UNCHANGED <<text, job, registered, drafts>> /\ heap' = [heap EXCEPT ![d].stale = TRUE]
    BY <1>6 DEF DraftGoesStale
  <2>2. \A e \in DraftIds : heap'[e] = IF e = d THEN [heap[d] EXCEPT !.stale = TRUE] ELSE heap[e]
    BY <2>1 DEF TypeInv, TypeOK
  <2>3. \A e \in DraftIds : Header(heap'[e]) = Header(heap[e])
    BY <2>2, SoundHeap, HeaderType
  <2> QED
    BY <1>4, <2>1, <2>3
<1>7. CASE UNCHANGED vars
  BY <1>4, <1>7 DEF vars
<1> QED
  BY <1>1, <1>2, <1>3, <1>5, <1>6, <1>7

LEMMA MirrorStep ==
    ASSUME Overlap = "none", MaxFaults = 0, \A c1, c2 \in Containers : c1 = c2,
           TypeInv, SoloInv, MirrorInv, [Next]_vars
    PROVE  MirrorInv'
<1>1. ASSUME NEW w \in Workers, Step(w)
      PROVE  MirrorInv'
  BY <1>1, NoFaults, LoadMirrors, DraftMirrors, ClosingMirrors, EditMirrors DEF Step
<1> QED
  BY <1>1, NoFaults, OutsideMirrors DEF Next

LEMMA MirrorInit == Init => MirrorInv
BY DEF Init, MirrorInv, RegisteredAsShown, Busy

\* When taps do not overlap, no call fails and one container serves the prompt,
\* the header in the message and the draft in the map say the same between any
\* two taps, so a cold start loses nothing.
THEOREM MirrorKept ==
    ASSUME Overlap = "none", MaxFaults = 0, \A c1, c2 \in Containers : c1 = c2
    PROVE  Spec => []HeaderMirrorsDraft
<1>1. TypeInv /\ SoloInv /\ [Next]_vars => SoloInv'
  BY SoloStep
<1>2. TypeInv /\ SoloInv /\ MirrorInv /\ [Next]_vars => MirrorInv'
  BY MirrorStep
<1>3. MirrorInv => HeaderMirrorsDraft
  BY DEF MirrorInv, HeaderMirrorsDraft, AllIdle
<1> QED
  BY <1>1, <1>2, <1>3, TypeInit, TypeStep, SoloInit, MirrorInit, PTL DEF Spec

\* Under the same conditions, a match is registered with the opponent and the
\* score that were on screen when its owner tapped Confirm.
THEOREM ConfirmedAsShown ==
    ASSUME Overlap = "none", MaxFaults = 0, \A c1, c2 \in Containers : c1 = c2
    PROVE  Spec => []RegisteredAsShown
<1>1. TypeInv /\ SoloInv /\ [Next]_vars => SoloInv'
  BY SoloStep
<1>2. TypeInv /\ SoloInv /\ MirrorInv /\ [Next]_vars => MirrorInv'
  BY MirrorStep
<1>3. MirrorInv => RegisteredAsShown
  BY DEF MirrorInv
<1> QED
  BY <1>1, <1>2, <1>3, TypeInit, TypeStep, SoloInit, MirrorInit, PTL DEF Spec

=============================================================================
