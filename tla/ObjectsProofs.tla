---------------------------- MODULE ObjectsProofs ----------------------------
(***************************************************************************)
(* Proofs about Objects, for any requests; about ModelObject, for any      *)
(* threads and names; and about Wiring, for any models, domains, relations *)
(* and threads.                                                            *)
(***************************************************************************)
EXTENDS Objects, ModelObject, Wiring, JsArrayProofs, TLAPS

-----------------------------------------------------------------------------
(* Objects: what is kept where.  What is said of a request is said of its  *)
(* label l, its stage s, its model m and its answer g.                     *)

Values == {Missing} \cup SUBSET (Creates \cup Edits)
Stages == {"main", "work", "reply"}

(* What is due: nothing, once a create has overwritten a document that it  *)
(* could not look up.  Who is on the alert: the warned creates but those.  *)
Due   == IF blind = {} THEN owed ELSE {}
Alert == warned \ blind
Moving == Labels \ {"new", "done", "failed", "lost"}

Typed ==
    /\ cache \in Values /\ store \in Values
    /\ stage \in [Requests -> Stages] /\ pc \in [Requests -> Labels]
    /\ model \in [Requests -> Values] /\ got \in [Requests -> Values]
    /\ met \subseteq Requests /\ Due \subseteq Creates \cup Edits /\ Alert \subseteq Creates
    /\ exists \in BOOLEAN /\ gone \in BOOLEAN /\ refused \in BOOLEAN

(* Which requests are at which label, and what they have found by then.    *)
ControlOf(r, l, s, m, g) ==
    /\ l = "new" => s = "main"
    /\ l \notin {"fill", "done", "failed", "lost"} => g = Missing
    /\ l = "create" => r \in Creates /\ s = "work"
    /\ l \in {"update", "save sync"} => r \in Edits /\ s = "work"
    /\ l \in {"save", "saved"} => r \in Creates \cup Edits /\ s = "work"
    /\ l \in {"rollback", "restore"} => r \in Edits /\ s = "reply"
    /\ l \in {"delete", "delete sync"} => r \in Removes /\ s = "work"
    /\ l \in {"find", "query", "fill"} => s = "main" \/ r \in Edits \/ (s = "work" /\ r \in Removes)
    /\ r \in Loads \cup Finds => s = "main"
    /\ l = "find" => r \notin Loads
    /\ r \in Creates /\ s = "main" => m = Missing
    /\ r \in Creates /\ l \in {"save", "saved"} => m = {r}
    /\ r \in Edits /\ (s = "reply" \/ l \in {"update", "save sync", "save", "saved"}) =>
          m # Missing
Control == \A r \in Requests : ControlOf(r, pc[r], stage[r], model[r], got[r])

(* A request that has met no other one is alone.                           *)
Alone == \A r \in Active : r \notin met => Active = {r}

(* What is Due is in the cache, or if there is none in the store, and in  *)
(* all that requests in progress are going to write.                       *)
Holds(value) == value # Missing /\ Due \subseteq value
KeptOf(r, l, s, m, g) ==
    /\ r \in Removes => Due = {}
    /\ l \in {"create", "save", "saved"} /\ r \in Creates => Due = {}
    /\ Due # {} /\ l \in {"query", "fill"} => Holds(store)
    /\ Due # {} /\ l = "fill" => IF g = Missing THEN r \notin Creates ELSE Holds(g)
    /\ Due # {} /\ r \in Edits
          /\ (s = "reply" \/ l \in {"update", "save sync", "save", "saved"}) =>
          Holds(m)
Kept ==
    /\ Due # {} => Holds(Current) /\ (~refused => Holds(store))
    /\ \A r \in Active : KeptOf(r, pc[r], stage[r], model[r], got[r])

(* A request that is alone finds in the cache what it wrote there, and in  *)
(* the store unless that refused.                                          *)
SavedAs(r, m) == IF r \in Creates THEN m ELSE m \cup {r}
OwnOf(r, l, s, m) ==
    r \notin met =>
        /\ s = "reply" => l \notin {"query", "fill", "rollback", "restore"}
        /\ l \in {"save sync", "save"} => cache = SavedAs(r, m)
        /\ l = "saved" \/ s = "reply" =>
              cache = SavedAs(r, m) /\ (refused \/ store = SavedAs(r, m))
Own == \A r \in Active : OwnOf(r, pc[r], stage[r], model[r])

(* Where a create was acknowledged the object is, and nobody removes it.   *)
MadeOf(r, l, s, g) ==
    r \in Alert =>
        /\ s = "main" /\ l # "new"
        /\ l = "query" => store # Missing
        /\ l = "fill" => g # Missing
Made ==
    /\ exists => Current # Missing /\ Removes \cap Active = {}
    /\ Alert # {} => exists
    /\ \A r \in Requests : MadeOf(r, pc[r], stage[r], got[r])

(* As long as no two requests have met, the cache and the store differ     *)
(* only while one of them is written after the other.                      *)
Settled ==
    met = {} =>
        /\ \A r \in Active : pc[r] = "fill" => got[r] \in {store, Missing}
        /\ \/ cache = Missing \/ refused \/ store = cache
           \/ \E r \in Active : pc[r] \in {"save sync", "save", "delete sync"}

ObjectsInv == Typed /\ Control /\ Alone /\ Kept /\ Own /\ Made /\ Settled

-----------------------------------------------------------------------------
(* One request moves.                                                      *)

Moves(r, l, s, m, g) ==
    /\ pc' = [pc EXCEPT ![r] = l] /\ stage' = [stage EXCEPT ![r] = s]
    /\ model' = [model EXCEPT ![r] = m] /\ got' = [got EXCEPT ![r] = g]

LEMMA ActiveFacts ==
    ASSUME Typed PROVE \A r : r \in Active <=> r \in Requests /\ pc[r] \in Moving
BY DEF Typed, Active, Ended, Waiting, Moving

LEMMA MissingIsNoSet == \A S \in SUBSET Requests : S # Missing
BY ObjectsAssumption

LEMMA MergedIsNoHole ==
    ASSUME NEW m \in Values, m # Missing, NEW r \in Creates \cup Edits
    PROVE  m \cup {r} \in Values /\ m \cup {r} # Missing
<1>1. m \cup {r} \in SUBSET (Creates \cup Edits)
  BY DEF Values
<1>2. m \cup {r} \in SUBSET Requests
  BY <1>1 DEF Requests
<1> QED BY <1>1, <1>2, MissingIsNoSet DEF Values

LEMMA MoveFacts ==
    ASSUME Typed, NEW r \in Requests, NEW l \in Labels, NEW s \in Stages,
           NEW m \in Values, NEW g \in Values, Moves(r, l, s, m, g)
    PROVE  /\ pc' \in [Requests -> Labels] /\ stage' \in [Requests -> Stages]
           /\ model' \in [Requests -> Values] /\ got' \in [Requests -> Values]
           /\ pc'[r] = l /\ stage'[r] = s /\ model'[r] = m /\ got'[r] = g
           /\ \A q \in Requests : q # r => /\ pc'[q] = pc[q] /\ stage'[q] = stage[q]
                                           /\ model'[q] = model[q] /\ got'[q] = got[q]
           /\ Active' = IF l \in Moving THEN Active \cup {r} ELSE Active \ {r}
<1>1. /\ pc' \in [Requests -> Labels] /\ stage' \in [Requests -> Stages]
      /\ model' \in [Requests -> Values] /\ got' \in [Requests -> Values]
      /\ pc'[r] = l /\ stage'[r] = s /\ model'[r] = m /\ got'[r] = g
      /\ \A q \in Requests : q # r => /\ pc'[q] = pc[q] /\ stage'[q] = stage[q]
                                      /\ model'[q] = model[q] /\ got'[q] = got[q]
  BY DEF Typed, Moves
<1>2. \A q : q \in Active' <=> q \in Requests /\ pc'[q] \in Moving
  BY <1>1 DEF Active, Ended, Waiting, Moving
<1>3. \A q : q \in Active <=> q \in Requests /\ pc[q] \in Moving
  BY ActiveFacts
<1>4. ASSUME NEW q
      PROVE  q \in Active' <=> q \in (IF l \in Moving THEN Active \cup {r} ELSE Active \ {r})
  BY <1>1, <1>2, <1>3
<1> QED BY <1>1, <1>4

(* A step of one request in progress keeps the invariant if it keeps what  *)
(* is said of that request, and of the cache and the store.                *)
LEMMA MoveStep ==
    ASSUME ObjectsInv, NEW r \in Active, NEW l \in Labels, NEW s \in Stages,
           NEW m \in Values, NEW g \in Values, Moves(r, l, s, m, g),
           cache' \in Values, store' \in Values, UNCHANGED met,
           Due' \subseteq Creates \cup Edits, Alert' \subseteq Alert,
           exists' \in BOOLEAN, gone' \in BOOLEAN, refused' \in BOOLEAN,
           ControlOf(r, l, s, m, g),
           l \in Moving => KeptOf(r, l, s, m, g)' /\ OwnOf(r, l, s, m)',
           Due' # {} => Holds(Current)' /\ (~refused' => Holds(store)'),
           \/ Due' = {}
           \/ Due' = Due /\ (Holds(store) => Holds(store)')
           \/ Active = {r} /\ l \notin Moving,
           exists' => Current' # Missing /\ Removes \cap Active' = {},
           Alert' # {} => exists' /\ (store # Missing => store' # Missing),
           MadeOf(r, l, s, g)',
           met = {} => /\ l = "fill" => g \in {store', Missing}
                       /\ \/ cache' = Missing \/ refused' \/ store' = cache'
                          \/ l \in {"save sync", "save", "delete sync"}
    PROVE  ObjectsInv'
<1>1. r \in Requests /\ Typed /\ Control /\ Alone
  BY DEF ObjectsInv, Active
<1>2. /\ pc' \in [Requests -> Labels] /\ stage' \in [Requests -> Stages]
      /\ model' \in [Requests -> Values] /\ got' \in [Requests -> Values]
      /\ pc'[r] = l /\ stage'[r] = s /\ model'[r] = m /\ got'[r] = g
      /\ \A q \in Requests : q # r => /\ pc'[q] = pc[q] /\ stage'[q] = stage[q]
                                      /\ model'[q] = model[q] /\ got'[q] = got[q]
      /\ Active' = IF l \in Moving THEN Active \cup {r} ELSE Active \ {r}
  BY <1>1, MoveFacts
<1>3. Typed'
  BY <1>1, <1>2 DEF Typed
<1>4. Control'
  <2>1. ASSUME NEW q \in Requests, q # r PROVE ControlOf(q, pc[q], stage[q], model[q], got[q])'
    <3>1. ControlOf(q, pc[q], stage[q], model[q], got[q])
      BY <1>1 DEF Control
    <3> QED BY <1>2, <2>1, <3>1 DEF ControlOf
  <2>2. ControlOf(r, pc[r], stage[r], model[r], got[r])'
    BY <1>2 DEF ControlOf
  <2> QED BY <2>1, <2>2 DEF Control
<1>5. Active' \subseteq Active /\ Active \subseteq Requests /\ (r \in Active' <=> l \in Moving)
  BY <1>2 DEF Active
<1>6. \A q \in Active : q # r => q \in met /\ r \in met
  BY <1>1 DEF Alone
<1>7. Alone'
  BY <1>1, <1>5, <1>6 DEF Alone
<1>8. Kept'
  <2>1. ASSUME NEW q \in Active', q # r PROVE KeptOf(q, pc[q], stage[q], model[q], got[q])'
    <3>1. q \in Active /\ q \in Requests /\ KeptOf(q, pc[q], stage[q], model[q], got[q])
      BY <1>5, <2>1 DEF ObjectsInv, Kept
    <3>2. /\ pc'[q] = pc[q] /\ stage'[q] = stage[q] /\ model'[q] = model[q] /\ got'[q] = got[q]
      BY <1>2, <2>1, <3>1
    <3>3. Due' = {} \/ (Due' = Due /\ (Holds(store) => Holds(store)'))
      BY <2>1, <3>1
    <3> QED BY <3>1, <3>2, <3>3 DEF KeptOf, Holds
  <2>2. l \in Moving => KeptOf(r, pc[r], stage[r], model[r], got[r])'
    BY <1>2
  <2> QED BY <1>5, <2>1, <2>2 DEF Kept
<1>9. Own'
  <2>1. ASSUME NEW q \in Active', q # r PROVE OwnOf(q, pc[q], stage[q], model[q])'
    BY <1>5, <1>6, <2>1 DEF OwnOf
  <2>2. l \in Moving => OwnOf(r, pc[r], stage[r], model[r])'
    BY <1>2
  <2> QED BY <1>5, <2>1, <2>2 DEF Own
<1>10. Made'
  <2>1. ASSUME NEW q \in Requests, q # r PROVE MadeOf(q, pc[q], stage[q], got[q])'
    BY <1>2, <2>1 DEF MadeOf, ObjectsInv, Made
  <2>2. MadeOf(r, pc[r], stage[r], got[r])'
    BY <1>2
  <2> QED BY <2>1, <2>2 DEF Made
<1>11. Settled'
  <2> SUFFICES ASSUME met = {}
               PROVE  /\ \A q \in Active' : pc'[q] = "fill" => got'[q] \in {store', Missing}
                      /\ \/ cache' = Missing \/ refused' \/ store' = cache'
                         \/ \E q \in Active' : pc'[q] \in {"save sync", "save", "delete sync"}
    BY DEF Settled
  <2>1. Active' \subseteq {r}
    BY <1>5, <1>6
  <2>2. l \in {"save sync", "save", "delete sync"} => r \in Active'
    BY <1>5 DEF Moving, Labels
  <2> QED BY <1>2, <2>1, <2>2
<1> QED BY <1>3, <1>4, <1>7, <1>8, <1>9, <1>10, <1>11 DEF ObjectsInv

-----------------------------------------------------------------------------
(* Objects: the steps                                                      *)

(* What the invariant says of a request in progress.                       *)
LEMMA RequestFacts ==
    ASSUME ObjectsInv, NEW r \in Requests, pc[r] \in Moving
    PROVE  /\ r \in Active /\ stage[r] \in Stages /\ model[r] \in Values /\ got[r] \in Values
           /\ cache \in Values /\ store \in Values /\ pc[r] \in Labels
           /\ Due \subseteq Creates \cup Edits /\ Alert \subseteq Creates
           /\ exists \in BOOLEAN /\ gone \in BOOLEAN /\ refused \in BOOLEAN
           /\ ControlOf(r, pc[r], stage[r], model[r], got[r])
           /\ KeptOf(r, pc[r], stage[r], model[r], got[r])
           /\ OwnOf(r, pc[r], stage[r], model[r])
           /\ MadeOf(r, pc[r], stage[r], got[r])
           /\ Due # {} => Holds(Current) /\ (~refused => Holds(store))
           /\ exists => Current # Missing /\ Removes \cap Active = {}
           /\ Alert # {} => exists
           /\ r \notin met => Active = {r}
           /\ met = {} => /\ pc[r] = "fill" => got[r] \in {store, Missing}
                          /\ \/ cache = Missing \/ refused \/ store = cache
                             \/ pc[r] \in {"save sync", "save", "delete sync"}
<1>1. r \in Active
  BY ActiveFacts DEF ObjectsInv
<1>2. Typed /\ Control /\ Alone /\ Kept /\ Own /\ Made /\ Settled
  BY DEF ObjectsInv
<1>3. /\ stage[r] \in Stages /\ model[r] \in Values /\ got[r] \in Values
      /\ cache \in Values /\ store \in Values /\ pc[r] \in Labels
      /\ Due \subseteq Creates \cup Edits /\ Alert \subseteq Creates
      /\ exists \in BOOLEAN /\ gone \in BOOLEAN /\ refused \in BOOLEAN
  BY <1>2 DEF Typed
<1>4. /\ ControlOf(r, pc[r], stage[r], model[r], got[r])
      /\ KeptOf(r, pc[r], stage[r], model[r], got[r])
      /\ OwnOf(r, pc[r], stage[r], model[r])
      /\ MadeOf(r, pc[r], stage[r], got[r])
      /\ Due # {} => Holds(Current) /\ (~refused => Holds(store))
      /\ exists => Current # Missing /\ Removes \cap Active = {}
      /\ Alert # {} => exists
      /\ r \notin met => Active = {r}
  BY <1>1, <1>2 DEF Control, Kept, Own, Made, Alone
<1>5. met = {} => /\ pc[r] = "fill" => got[r] \in {store, Missing}
                  /\ \/ cache = Missing \/ refused \/ store = cache
                     \/ pc[r] \in {"save sync", "save", "delete sync"}
  BY <1>1, <1>2, <1>4 DEF Settled
<1> QED BY <1>1, <1>3, <1>4, <1>5

(* Steps that write neither the cache nor the store and promise nothing.   *)
LEMMA QuietStep ==
    ASSUME ObjectsInv, NEW r \in Requests, pc[r] \in Moving, NEW l \in Moving, NEW s \in Stages,
           NEW m \in Values, NEW g \in Values, Moves(r, l, s, m, g),
           UNCHANGED <<cache, store, met, Due, exists, Alert, gone, refused>>,
           ControlOf(r, l, s, m, g), KeptOf(r, l, s, m, g), OwnOf(r, l, s, m), MadeOf(r, l, s, g),
           met = {} => /\ l = "fill" => g \in {store, Missing}
                       /\ pc[r] \in {"save sync", "save", "delete sync"} =>
                             l \in {"save sync", "save", "delete sync"}
    PROVE  ObjectsInv'
<1>1. l \in Labels
  BY DEF Moving
<1>2. /\ r \in Active /\ cache \in Values /\ store \in Values
      /\ Due \subseteq Creates \cup Edits /\ Alert \subseteq Creates
      /\ exists \in BOOLEAN /\ gone \in BOOLEAN /\ refused \in BOOLEAN
      /\ Due # {} => Holds(Current) /\ (~refused => Holds(store))
      /\ exists => Current # Missing /\ Removes \cap Active = {}
      /\ Alert # {} => exists
      /\ met = {} => \/ cache = Missing \/ refused \/ store = cache
                     \/ pc[r] \in {"save sync", "save", "delete sync"}
  BY RequestFacts
<1>3. KeptOf(r, l, s, m, g)' /\ OwnOf(r, l, s, m)' /\ MadeOf(r, l, s, g)'
  BY DEF KeptOf, OwnOf, MadeOf, Holds
<1>4. Due' # {} => Holds(Current)' /\ (~refused' => Holds(store)')
  BY <1>2 DEF Holds, Current
<1>5. Holds(store) => Holds(store)'
  BY DEF Holds
<1>6. Active' = Active
  <2>1. Typed /\ Active \cup {r} = Active
    BY <1>2 DEF ObjectsInv
  <2> QED BY <1>1, <2>1, MoveFacts
<1>7. exists' => Current' # Missing /\ Removes \cap Active' = {}
  BY <1>2, <1>6 DEF Current
<1> QED BY <1>1, <1>2, <1>3, <1>4, <1>5, <1>7, MoveStep

(* The request ends.                                                       *)
LEMMA EndStep ==
    ASSUME ObjectsInv, NEW r \in Requests, pc[r] \in Moving, NEW l \in {"done", "failed"},
           NEW s \in Stages, NEW m \in Values,
           Moves(r, l, s, m, got[r]) \/ Moves(r, l, s, m, Missing),
           UNCHANGED <<met, Alert>>, cache' \in Values, store' \in Values,
           Due' \subseteq Creates \cup Edits, gone' \in BOOLEAN, refused' \in BOOLEAN,
           r \in Loads \cup Finds => s = "main",
           r \in Creates /\ s = "main" => m = Missing,
           r \in Edits /\ s = "reply" => m # Missing,
           r \in Alert => s = "main",
           Due' # {} => Holds(Current)' /\ (~refused' => Holds(store)'),
           \/ Due' = Due /\ (Holds(store) => Holds(store)')
           \/ Active = {r},
           exists' \in BOOLEAN,
           exists => exists' /\ Current' # Missing /\ (store # Missing => store' # Missing),
           exists' /\ ~exists => Current' # Missing /\ Removes \cap Active \subseteq {r},
           met = {} => cache' = Missing \/ refused' \/ store' = cache'
    PROVE  ObjectsInv'
<1>1. l \in Labels /\ l \notin Moving
  BY DEF Labels, Moving
<1>2. PICK g \in Values : Moves(r, l, s, m, g)
  BY RequestFacts DEF Values
<1>3. ControlOf(r, l, s, m, g) /\ MadeOf(r, l, s, g)'
  BY DEF ControlOf, MadeOf
<1>4. /\ r \in Active /\ (Alert # {} => exists) /\ Typed
      /\ exists => Removes \cap Active = {}
  BY RequestFacts DEF ObjectsInv
<1>5. Active' = Active \ {r}
  BY <1>1, <1>2, <1>4, MoveFacts
<1>6. exists' => Current' # Missing /\ Removes \cap Active' = {}
  BY <1>4, <1>5
<1>7. Alert' # {} => exists' /\ (store # Missing => store' # Missing)
  BY <1>4
<1> QED BY <1>1, <1>2, <1>3, <1>4, <1>6, <1>7, MoveStep

(* The request is answered.                                                *)
LEMMA AnswerStep ==
    ASSUME ObjectsInv, NEW r \in Requests, pc[r] \in Moving, NEW s \in Stages, NEW m \in Values,
           NEW n \in Values, Answer(r, m),
           stage' = [stage EXCEPT ![r] = s], model' = [model EXCEPT ![r] = n],
           got' = [got EXCEPT ![r] = got[r]] \/ got' = [got EXCEPT ![r] = Missing],
           cache' \in Values, UNCHANGED store,
           r \in Loads \cup Finds => s = "main",
           r \in Creates /\ s = "main" => n = Missing,
           r \in Edits /\ s = "reply" => n # Missing,
           r \in Alert => s = "main",
           Due # {} => Current' # Missing /\ Due \subseteq Current',
           m # Missing /\ r \notin met /\ (r \in Edits \/ model[r] = {r}) =>
               /\ Current' # Missing /\ r \in Current'
               /\ refused \/ (store # Missing /\ r \in store),
           exists \/ (m # Missing /\ r \in Creates) => Current' # Missing,
           met = {} => cache' = Missing \/ refused \/ store = cache'
    PROVE  ObjectsInv'
<1> DEFINE l == IF m # Missing THEN "done" ELSE "failed"
<1>1. /\ pc' = [pc EXCEPT ![r] = l] /\ UNCHANGED <<met, Alert, refused>>
      /\ \/ Due' = Due
         \/ Due' = Due \cup {r} /\ m # Missing /\ r \notin met /\ (r \in Edits \/ model[r] = {r})
      /\ exists' = (exists \/ (m # Missing /\ r \in Creates /\ Removes \cap Active = {}))
      /\ gone' = (gone \/ (m # Missing /\ r \notin met /\ r \in Removes \ kept))
  BY DEF Answer, GoTo, Due, Alert
<1>2. /\ r \in Active /\ model[r] \in Values /\ store \in Values
      /\ Due \subseteq Creates \cup Edits /\ Alert \subseteq Creates
      /\ exists \in BOOLEAN /\ gone \in BOOLEAN /\ refused \in BOOLEAN
      /\ Due # {} /\ ~refused => Holds(store)
      /\ r \notin met => Active = {r}
  BY RequestFacts
<1>3. l \in {"done", "failed"} /\ (Moves(r, l, s, n, got[r]) \/ Moves(r, l, s, n, Missing))
  BY <1>1 DEF Moves
<1>4. model[r] = {r} => r \in Creates \cup Edits
  <2>1. {r} # Missing
    BY MissingIsNoSet
  <2> QED BY <1>2, <2>1 DEF Values
<1>5. Due' \subseteq Creates \cup Edits
  BY <1>1, <1>2, <1>4
<1>6. Due' # {} => Holds(Current)' /\ (~refused' => Holds(store)')
  <2>1. CASE Due' = Due
    BY <1>1, <1>2, <2>1 DEF Holds
  <2>2. CASE Due' = Due \cup {r} /\ m # Missing /\ r \notin met /\ (r \in Edits \/ model[r] = {r})
    <3>1. Current' # Missing /\ Due' \subseteq Current'
      BY <2>2
    <3>2. ~refused => store # Missing /\ Due' \subseteq store
      BY <1>2, <2>2 DEF Holds
    <3> QED BY <1>1, <3>1, <3>2 DEF Holds
  <2> QED BY <1>1, <2>1, <2>2
<1>7. (Due' = Due /\ (Holds(store) => Holds(store)')) \/ Active = {r}
  BY <1>1, <1>2 DEF Holds
<1>8. exists' \in BOOLEAN /\ gone' \in BOOLEAN
  BY <1>1, <1>2
<1>9. /\ exists => exists' /\ Current' # Missing /\ (store # Missing => store' # Missing)
      /\ exists' /\ ~exists => Current' # Missing /\ Removes \cap Active \subseteq {r}
  BY <1>1, <1>2
<1>10. refused' \in BOOLEAN /\ store' \in Values /\ UNCHANGED <<met, Alert>>
       /\ (met = {} => cache' = Missing \/ refused' \/ store' = cache')
  BY <1>1, <1>2
<1> HIDE DEF l
<1> QED BY <1>3, <1>5, <1>6, <1>7, <1>8, <1>9, <1>10, EndStep

(* A lookup ends with m, which is in the cache then: it was there, or the  *)
(* request has filled it in.                                               *)
LEMMA AfterFindStep ==
    ASSUME ObjectsInv, NEW r \in Requests, pc[r] \in {"find", "query", "fill"},
           NEW m \in Values, AfterFind(r, m), r \notin Loads,
           got' = [got EXCEPT ![r] = Missing],
           UNCHANGED store, cache' = IF m = Missing THEN cache ELSE m,
           Due # {} => IF m = Missing THEN r \notin Creates ELSE Holds(m),
           r \in Alert => m # Missing,
           r \notin met /\ stage[r] = "reply" => cache' = cache,
           met = {} => cache' \in {cache, store, Missing}
    PROVE  ObjectsInv'
<1>1. /\ r \in Active /\ stage[r] \in Stages /\ model[r] \in Values /\ got[r] \in Values
      /\ cache \in Values /\ store \in Values
      /\ Due \subseteq Creates \cup Edits /\ Alert \subseteq Creates
      /\ exists \in BOOLEAN /\ gone \in BOOLEAN /\ refused \in BOOLEAN
      /\ ControlOf(r, pc[r], stage[r], model[r], got[r])
      /\ KeptOf(r, pc[r], stage[r], model[r], got[r])
      /\ OwnOf(r, pc[r], stage[r], model[r])
      /\ MadeOf(r, pc[r], stage[r], got[r])
      /\ Due # {} => Holds(Current) /\ (~refused => Holds(store))
      /\ exists => Current # Missing /\ Removes \cap Active = {}
      /\ Alert # {} => exists
      /\ r \notin met => Active = {r}
      /\ met = {} => cache = Missing \/ refused \/ store = cache
      /\ pc[r] \in Moving
  <2>1. pc[r] \in Moving
    BY DEF Moving, Labels
  <2>2. pc[r] \notin {"save sync", "save", "delete sync"}
    OBVIOUS
  <2> QED BY <2>1, <2>2, RequestFacts
<1>2. cache' \in Values /\ (met = {} => cache' = Missing \/ refused \/ store = cache')
  BY <1>1
<1>3. /\ exists \/ (m # Missing /\ r \in Creates) => Current' # Missing
      /\ Due # {} => Current' # Missing /\ Due \subseteq Current'
  BY <1>1 DEF Current, Holds
<1>4. /\ r \in Finds => stage[r] = "main"
      /\ r \in Creates /\ stage[r] = "main" => model[r] = Missing
      /\ r \in Edits /\ stage[r] = "reply" => model[r] # Missing
      /\ stage[r] = "main" \/ r \in Edits \/ (stage[r] = "work" /\ r \in Removes)
      /\ r \in Alert => stage[r] = "main"
  BY <1>1 DEF ControlOf, MadeOf
<1>5. r \in Creates => r \notin Edits /\ r \notin Removes /\ r \notin Finds
  BY ObjectsAssumption
<1>6. CASE /\ Answer(r, m) /\ UNCHANGED <<stage, model>>
           /\ (r \in Edits /\ m # Missing => stage[r] = "reply")
  <2>1. /\ stage' = [stage EXCEPT ![r] = stage[r]] /\ model' = [model EXCEPT ![r] = model[r]]
    BY <1>6 DEF ObjectsInv, Typed
  <2>2. r \notin Edits => model[r] # {r}
    <3>1. {r} # Missing
      BY MissingIsNoSet
    <3>2. model[r] = {r} => r \in Creates \cup Edits
      BY <1>1, <3>1 DEF Values
    <3> QED BY <1>4, <1>5, <3>1, <3>2
  <2>3. m # Missing /\ r \notin met /\ (r \in Edits \/ model[r] = {r}) =>
            /\ Current' # Missing /\ r \in Current'
            /\ refused \/ (store # Missing /\ r \in store)
    <3> SUFFICES ASSUME m # Missing, r \notin met, r \in Edits \/ model[r] = {r}
                 PROVE  /\ Current' # Missing /\ r \in Current'
                        /\ refused \/ (store # Missing /\ r \in store)
      OBVIOUS
    <3>1. r \in Edits /\ stage[r] = "reply"
      BY <1>6, <2>2
    <3>2. cache = model[r] \cup {r} /\ (refused \/ store = model[r] \cup {r})
      BY <1>1, <1>5, <3>1 DEF OwnOf, SavedAs
    <3>3. model[r] \cup {r} # Missing
      BY <1>1, <1>4, <3>1, MergedIsNoHole
    <3>4. cache' = cache
      BY <3>1
    <3> QED BY <3>2, <3>3, <3>4 DEF Current
  <2> QED BY <1>1, <1>2, <1>3, <1>4, <1>6, <2>1, <2>3, AnswerStep
<1>7. CASE /\ Work(r) /\ r \notin Finds /\ ((r \in Creates) = (m = Missing)) /\ stage[r] = "main"
  <2> DEFINE l == IF r \in Creates THEN "create" ELSE "find"
  <2> PICK n \in Values : n = model[r]
    BY <1>1
  <2>1. /\ pc' = [pc EXCEPT ![r] = l] /\ stage' = [stage EXCEPT ![r] = "work"]
        /\ model' = [model EXCEPT ![r] = n]
        /\ UNCHANGED <<met, Due, exists, Alert, gone, refused>>
    BY <1>7 DEF Work, Goes, GoTo, history, promises, Due, Alert, ObjectsInv, Typed
  <2> PICK g \in Values : g = Missing
    BY DEF Values
  <2>2. got' = [got EXCEPT ![r] = g]
    OBVIOUS
  <2>3. l \in Labels /\ l \in Moving /\ l \in {"create", "find"} /\ Moves(r, l, "work", n, g)
    BY <2>1, <2>2 DEF Labels, Moving, Moves
  <2>4. r \in Creates \cup Edits \cup Removes /\ r \notin Finds /\ (r \in Creates <=> l = "create")
    BY <1>7 DEF Requests
  <2>5. r \in Creates => Due = {} /\ r \notin Alert
    BY <1>7 DEF Holds
  <2>6. ControlOf(r, l, "work", n, g)
    BY <1>4, <1>5, <2>3, <2>4 DEF ControlOf
  <2>7. KeptOf(r, l, "work", n, g)'
    BY <1>1, <2>1, <2>3, <2>4, <2>5 DEF KeptOf
  <2>8. OwnOf(r, l, "work", n)'
    BY <2>3 DEF OwnOf
  <2>9. MadeOf(r, l, "work", g)'
    BY <1>1, <2>1, <2>4, <2>5 DEF MadeOf
  <2>10. Due' # {} => Holds(Current)' /\ (~refused' => Holds(store)')
    BY <1>1, <1>3, <2>1 DEF Holds
  <2>11. Due' = Due /\ (Holds(store) => Holds(store)')
    BY <2>1 DEF Holds
  <2>12. Active' = Active
    <3>1. Typed /\ Active \cup {r} = Active
      BY <1>1 DEF ObjectsInv
    <3> QED BY <1>1, <2>3, <3>1, MoveFacts DEF Stages
  <2>13. exists' => Current' # Missing /\ Removes \cap Active' = {}
    BY <1>1, <1>3, <2>1, <2>12
  <2>14. met = {} => /\ l = "fill" => g \in {store', Missing}
                     /\ \/ cache' = Missing \/ refused' \/ store' = cache'
                        \/ l \in {"save sync", "save", "delete sync"}
    BY <1>2, <2>1, <2>3
  <2>15. /\ cache' \in Values /\ store' \in Values /\ UNCHANGED met /\ "work" \in Stages
         /\ Due' \subseteq Creates \cup Edits /\ Alert' \subseteq Alert
         /\ exists' \in BOOLEAN /\ gone' \in BOOLEAN /\ refused' \in BOOLEAN
         /\ Alert' # {} => exists' /\ (store # Missing => store' # Missing)
    BY <1>1, <1>2, <2>1 DEF Stages
  <2> HIDE DEF l
  <2> QED BY <1>1, <2>2, <2>3, <2>6, <2>7, <2>8, <2>9, <2>10, <2>11, <2>13, <2>14, <2>15, MoveStep
<1>8. CASE AfterWorkFind(r, m) /\ stage[r] = "work"
  <2>1. stage' = [stage EXCEPT ![r] = "work"] /\ model' = [model EXCEPT ![r] = m]
        /\ "work" \in Stages
    BY <1>8 DEF AfterWorkFind, ObjectsInv, Typed, Stages
  <2>2. r \in Edits \cup Removes /\ r \notin Creates /\ r \notin Finds /\ r \notin Alert
    BY <1>4, <1>5, <1>8, ObjectsAssumption
  <2>3. CASE m = Missing
    <3>1. Answer(r, m)
      BY <1>8, <2>3 DEF AfterWorkFind
    <3> QED BY <1>1, <1>2, <1>3, <2>1, <2>2, <2>3, <3>1, AnswerStep
  <2>4. CASE m # Missing
    <3> DEFINE l == IF r \in Edits THEN "update" ELSE "delete"
    <3>1. pc' = [pc EXCEPT ![r] = l] /\ UNCHANGED <<met, Due, exists, Alert, gone, refused>>
      BY <1>8, <2>4 DEF AfterWorkFind, Goes, GoTo, history, promises, Due, Alert
    <3> PICK g \in Values : g = Missing
      BY DEF Values
    <3>2. got' = [got EXCEPT ![r] = g]
      OBVIOUS
    <3>3. l \in Labels /\ l \in Moving /\ l \in {"update", "delete"} /\ Moves(r, l, "work", m, g)
      BY <2>1, <3>1, <3>2 DEF Labels, Moving, Moves
    <3>4. l = "delete" => r \in Removes
      BY <2>2
    <3>5. l = "update" => r \in Edits
      OBVIOUS
    <3>6. ControlOf(r, l, "work", m, g)
      BY <2>2, <2>4, <3>3, <3>4, <3>5 DEF ControlOf
    <3>7. KeptOf(r, l, "work", m, g)'
      BY <1>1, <2>2, <2>4, <3>1, <3>3 DEF KeptOf, Holds
    <3>8. OwnOf(r, l, "work", m)' /\ MadeOf(r, l, "work", g)'
      BY <2>2, <3>1, <3>3 DEF OwnOf, MadeOf
    <3>9. Due' # {} => Holds(Current)' /\ (~refused' => Holds(store)')
      BY <1>1, <1>3, <3>1 DEF Holds
    <3>10. Due' = Due /\ (Holds(store) => Holds(store)')
      BY <3>1 DEF Holds
    <3>11. Active' = Active
      <4>1. Typed /\ Active \cup {r} = Active
        BY <1>1 DEF ObjectsInv
      <4> QED BY <2>1, <3>3, <4>1, MoveFacts
    <3>12. exists' => Current' # Missing /\ Removes \cap Active' = {}
      BY <1>1, <1>3, <3>1, <3>11
    <3>13. met = {} => /\ l = "fill" => g \in {store', Missing}
                       /\ \/ cache' = Missing \/ refused' \/ store' = cache'
                          \/ l \in {"save sync", "save", "delete sync"}
      BY <1>2, <3>1, <3>3
    <3>14. /\ cache' \in Values /\ store' \in Values /\ UNCHANGED met
           /\ Due' \subseteq Creates \cup Edits /\ Alert' \subseteq Alert
           /\ exists' \in BOOLEAN /\ gone' \in BOOLEAN /\ refused' \in BOOLEAN
           /\ Alert' # {} => exists' /\ (store # Missing => store' # Missing)
      BY <1>1, <1>2, <3>1
    <3> HIDE DEF l
    <3> QED BY <1>1, <2>1, <3>2, <3>3, <3>6, <3>7, <3>8, <3>9, <3>10, <3>12, <3>13, <3>14, MoveStep
  <2> QED BY <2>3, <2>4
<1>9. \/ /\ Answer(r, m) /\ UNCHANGED <<stage, model>>
         /\ (r \in Edits /\ m # Missing => stage[r] = "reply")
      \/ /\ Work(r) /\ r \notin Finds /\ ((r \in Creates) = (m = Missing)) /\ stage[r] = "main"
      \/ AfterWorkFind(r, m) /\ stage[r] = "work"
  <2>1. CASE stage[r] = "main" /\ AfterMainFind(r, m)
    <3>1. r \in Edits => r \notin Creates /\ r \notin Finds
      BY ObjectsAssumption
    <3> QED BY <2>1, <3>1 DEF AfterMainFind
  <2> QED BY <2>1 DEF AfterFind
<1> QED BY <1>6, <1>7, <1>8, <1>9

-----------------------------------------------------------------------------
(* Objects: the steps of find                                              *)

LEMMA FindInCacheStep ==
    ASSUME ObjectsInv, NEW r \in Requests, FindInCache(r) PROVE ObjectsInv'
<1>1. pc[r] = "find" /\ cache # Missing /\ AfterFind(r, cache) /\ UNCHANGED <<cache, store, got>>
  BY DEF FindInCache
<1>2. pc[r] \in Moving
  BY <1>1 DEF Moving, Labels
<1>3. /\ cache \in Values /\ ControlOf(r, pc[r], stage[r], model[r], got[r])
      /\ Due # {} => Holds(Current)
  BY <1>2, RequestFacts
<1>4. r \notin Loads /\ got[r] = Missing
  BY <1>1, <1>3 DEF ControlOf
<1>5. got' = [got EXCEPT ![r] = Missing]
  BY <1>1, <1>4 DEF ObjectsInv, Typed
<1>6. Due # {} => Holds(cache)
  BY <1>1, <1>3 DEF Current
<1> QED BY <1>1, <1>3, <1>4, <1>5, <1>6, AfterFindStep

LEMMA FindMissesStep ==
    ASSUME ObjectsInv, NEW r \in Requests, FindMisses(r) PROVE ObjectsInv'
<1> PICK s, m, g : s = stage[r] /\ m = model[r] /\ g = got[r]
  OBVIOUS
<1>1. /\ pc[r] = "find" /\ cache = Missing /\ pc' = [pc EXCEPT ![r] = "query"]
      /\ UNCHANGED <<cache, store, stage, model, got>>
      /\ UNCHANGED <<met, Due, exists, Alert, gone, refused>>
  BY DEF FindMisses, GoTo, history, promises, Due, Alert
<1>2. pc[r] \in Moving /\ "query" \in Moving
  BY <1>1 DEF Moving, Labels
<1>3. /\ s \in Stages /\ m \in Values /\ g \in Values
      /\ ControlOf(r, pc[r], s, m, g) /\ KeptOf(r, pc[r], s, m, g) /\ OwnOf(r, pc[r], s, m)
      /\ MadeOf(r, pc[r], s, g)
      /\ Due # {} => Holds(Current)
      /\ exists => Current # Missing
      /\ Alert # {} => exists
  BY <1>2, RequestFacts
<1>4. Moves(r, "query", s, m, g)
  BY <1>1 DEF Moves, ObjectsInv, Typed
<1>5. ControlOf(r, "query", s, m, g)
  BY <1>1, <1>3 DEF ControlOf
<1>6. KeptOf(r, "query", s, m, g)
  BY <1>1, <1>3 DEF KeptOf, Current
<1>7. OwnOf(r, "query", s, m)
  <2>1. s = "reply" => r \in Edits /\ m # Missing
    BY <1>1, <1>3 DEF ControlOf
  <2>2. s = "reply" => m \cup {r} # Missing
    BY <1>3, <2>1, MergedIsNoHole
  <2>3. r \in Edits => r \notin Creates
    BY ObjectsAssumption
  <2> QED BY <1>1, <1>3, <2>1, <2>2, <2>3 DEF OwnOf, SavedAs
<1>8. MadeOf(r, "query", s, g)
  BY <1>1, <1>3 DEF MadeOf, Current
<1> QED BY <1>1, <1>2, <1>3, <1>4, <1>5, <1>6, <1>7, <1>8, QuietStep

LEMMA StoreFindsStep ==
    ASSUME ObjectsInv, NEW r \in Requests, StoreFinds(r) PROVE ObjectsInv'
<1> PICK s, m, g : s = stage[r] /\ m = model[r] /\ g = store
  OBVIOUS
<1>1. /\ pc[r] = "query" /\ pc' = [pc EXCEPT ![r] = "fill"] /\ got' = [got EXCEPT ![r] = g]
      /\ UNCHANGED <<cache, store, stage, model>>
      /\ UNCHANGED <<met, Due, exists, Alert, gone, refused>>
  BY DEF StoreFinds, GoTo, history, promises, Due, Alert
<1>2. pc[r] \in Moving /\ "fill" \in Moving
  BY <1>1 DEF Moving, Labels
<1>3. /\ s \in Stages /\ m \in Values /\ g \in Values
      /\ ControlOf(r, pc[r], s, m, got[r]) /\ KeptOf(r, pc[r], s, m, got[r])
      /\ OwnOf(r, pc[r], s, m) /\ MadeOf(r, pc[r], s, got[r])
  BY <1>2, RequestFacts
<1>4. Moves(r, "fill", s, m, g)
  BY <1>1 DEF Moves, ObjectsInv, Typed
<1>5. ControlOf(r, "fill", s, m, g)
  BY <1>1, <1>3 DEF ControlOf
<1>6. KeptOf(r, "fill", s, m, g) /\ OwnOf(r, "fill", s, m) /\ MadeOf(r, "fill", s, g)
  BY <1>1, <1>3 DEF KeptOf, Holds, OwnOf, MadeOf
<1> QED BY <1>1, <1>2, <1>3, <1>4, <1>5, <1>6, QuietStep

LEMMA StoreFindFailsStep ==
    ASSUME ObjectsInv, NEW r \in Requests, StoreFindFails(r) PROVE ObjectsInv'
<1> PICK s, m, g : s = stage[r] /\ m = model[r] /\ g = got[r]
  OBVIOUS
<1>1. pc[r] = "query" /\ UNCHANGED <<cache, store, stage, model, got>>
  BY DEF StoreFindFails
<1>2. pc[r] \in Moving
  BY <1>1 DEF Moving, Labels
<1>3. /\ r \in Active /\ s \in Stages /\ m \in Values /\ g \in Values
      /\ cache \in Values /\ store \in Values
      /\ Due \subseteq Creates \cup Edits /\ Alert \subseteq Creates
      /\ exists \in BOOLEAN /\ gone \in BOOLEAN /\ refused \in BOOLEAN
      /\ ControlOf(r, pc[r], s, m, g) /\ KeptOf(r, pc[r], s, m, g) /\ OwnOf(r, pc[r], s, m)
      /\ MadeOf(r, pc[r], s, g)
      /\ Due # {} => Holds(Current) /\ (~refused => Holds(store))
      /\ exists => Current # Missing /\ Removes \cap Active = {}
      /\ Alert # {} => exists
      /\ met = {} => cache = Missing \/ refused \/ store = cache
  BY <1>1, <1>2, RequestFacts
<1>4. /\ stage' = [stage EXCEPT ![r] = s] /\ model' = [model EXCEPT ![r] = m]
      /\ got' = [got EXCEPT ![r] = got[r]] /\ got' = [got EXCEPT ![r] = g]
  BY <1>1 DEF ObjectsInv, Typed
<1>5. CASE stage[r] = "reply" /\ Goes(r, "rollback")
  <2>1. "rollback" \in Moving
    BY DEF Moving, Labels
  <2>2. Moves(r, "rollback", s, m, g) /\ UNCHANGED <<met, Due, exists, Alert, gone, refused>>
    BY <1>4, <1>5 DEF Moves, Goes, GoTo, history, promises, Due, Alert
  <2>3. ControlOf(r, "rollback", s, m, g)
    BY <1>1, <1>3, <1>5 DEF ControlOf
  <2>4. /\ KeptOf(r, "rollback", s, m, g) /\ OwnOf(r, "rollback", s, m)
        /\ MadeOf(r, "rollback", s, g)
    BY <1>1, <1>3, <1>5 DEF KeptOf, OwnOf, MadeOf
  <2> QED BY <1>1, <1>2, <1>3, <2>1, <2>2, <2>3, <2>4, QuietStep
<1>6. CASE stage[r] # "reply" /\ Answer(r, Missing)
  <2>1. /\ r \in Loads \cup Finds => s = "main"
        /\ r \in Creates /\ s = "main" => m = Missing
        /\ r \in Edits /\ s = "reply" => m # Missing
        /\ r \in Alert => s = "main"
    BY <1>3 DEF ControlOf, MadeOf
  <2>2. /\ Due # {} => Current' # Missing /\ Due \subseteq Current'
        /\ exists => Current' # Missing
    BY <1>1, <1>3 DEF Holds, Current
  <2>3. Missing \in Values
    BY DEF Values
  <2> QED BY <1>1, <1>2, <1>3, <1>4, <1>6, <2>1, <2>2, <2>3, AnswerStep
<1>7. CASE /\ r \notin Loads /\ GoTo(r, "fill")
           /\ blind' = IF r \in Creates /\ store # Missing THEN blind \cup {r} ELSE blind
           /\ UNCHANGED <<met, owed, exists, warned, gone, refused>>
  <2>1. "fill" \in Labels
    BY DEF Labels
  <2>2. Moves(r, "fill", s, m, g)
    BY <1>4, <1>7 DEF Moves, GoTo
  <2>3. ControlOf(r, "fill", s, m, g) /\ g = Missing
    BY <1>1, <1>3 DEF ControlOf
  <2>4. \/ r \in Creates /\ store # Missing /\ Due' = {} /\ Alert' = Alert \ {r}
        \/ (r \in Creates => store = Missing) /\ Due' = Due /\ Alert' = Alert
    BY <1>7 DEF Due, Alert
  <2>5. KeptOf(r, "fill", s, m, g)'
    <3>1. CASE Due' = {}
      BY <3>1 DEF KeptOf
    <3>2. CASE (r \in Creates => store = Missing) /\ Due' = Due
      BY <1>1, <1>3, <2>3, <3>2 DEF KeptOf, Holds
    <3> QED BY <2>4, <3>1, <3>2
  <2>6. OwnOf(r, "fill", s, m)'
    BY <1>1, <1>3, <1>7 DEF OwnOf
  <2>7. MadeOf(r, "fill", s, g)'
    <3>1. r \notin Alert'
      BY <1>1, <1>3, <2>4 DEF MadeOf
    <3> QED BY <3>1 DEF MadeOf
  <2>8. met = {} => /\ g \in {store', Missing}
                    /\ \/ cache' = Missing \/ refused' \/ store' = cache'
    BY <1>1, <1>3, <1>7, <2>3
  <2>9. /\ cache' \in Values /\ store' \in Values /\ UNCHANGED met
        /\ Due' \subseteq Creates \cup Edits /\ Alert' \subseteq Alert
        /\ exists' \in BOOLEAN /\ gone' \in BOOLEAN /\ refused' \in BOOLEAN
    BY <1>1, <1>3, <1>7, <2>4
  <2>10. /\ Due' # {} => Holds(Current)' /\ (~refused' => Holds(store)')
         /\ Due' = {} \/ (Due' = Due /\ (Holds(store) => Holds(store)'))
    BY <1>1, <1>3, <1>7, <2>4 DEF Holds, Current
  <2>11. Active' = Active
    <3>1. Typed /\ Active \cup {r} = Active /\ "fill" \in Moving
      BY <1>3 DEF ObjectsInv, Moving, Labels
    <3> QED BY <1>3, <2>1, <2>2, <3>1, MoveFacts
  <2>12. /\ exists' => Current' # Missing /\ Removes \cap Active' = {}
         /\ Alert' # {} => exists' /\ (store # Missing => store' # Missing)
    BY <1>1, <1>3, <1>7, <2>4, <2>11 DEF Current
  <2> QED BY <1>3, <2>1, <2>2, <2>3, <2>5, <2>6, <2>7, <2>8, <2>9, <2>10, <2>12, MoveStep
<1> QED BY <1>5, <1>6, <1>7 DEF StoreFindFails

LEMMA FillStep ==
    ASSUME ObjectsInv, NEW r \in Requests, Fill(r) PROVE ObjectsInv'
<1>1. /\ pc[r] = "fill" /\ cache' = (IF got[r] = Missing THEN cache ELSE got[r])
      /\ got' = [got EXCEPT ![r] = Missing] /\ UNCHANGED store
  BY DEF Fill
<1>2. pc[r] \in Moving
  BY <1>1 DEF Moving, Labels
<1>3. /\ r \in Active /\ stage[r] \in Stages /\ model[r] \in Values /\ got[r] \in Values
      /\ cache \in Values /\ store \in Values
      /\ Due \subseteq Creates \cup Edits /\ Alert \subseteq Creates
      /\ exists \in BOOLEAN /\ gone \in BOOLEAN /\ refused \in BOOLEAN
      /\ ControlOf(r, pc[r], stage[r], model[r], got[r])
      /\ KeptOf(r, pc[r], stage[r], model[r], got[r])
      /\ OwnOf(r, pc[r], stage[r], model[r])
      /\ MadeOf(r, pc[r], stage[r], got[r])
      /\ Due # {} => Holds(Current) /\ (~refused => Holds(store))
      /\ exists => Current # Missing /\ Removes \cap Active = {}
      /\ Alert # {} => exists
      /\ met = {} => got[r] \in {store, Missing} /\ (cache = Missing \/ refused \/ store = cache)
  BY <1>1, <1>2, RequestFacts
<1>4. Due # {} => IF got[r] = Missing THEN r \notin Creates ELSE Holds(got[r])
  BY <1>1, <1>3 DEF KeptOf
<1>5. r \in Alert => got[r] # Missing
  BY <1>1, <1>3 DEF MadeOf
<1>6. met = {} => cache' \in {cache, store, Missing}
  BY <1>1, <1>3
<1>7. CASE r \notin Loads
  <2>1. AfterFind(r, got[r])
    BY <1>7 DEF Fill
  <2>2. r \notin met /\ stage[r] = "reply" => cache' = cache
    BY <1>1, <1>3 DEF OwnOf
  <2> QED BY <1>1, <1>3, <1>4, <1>5, <1>6, <1>7, <2>1, <2>2, AfterFindStep
<1>8. CASE r \in Loads
  <2> PICK s \in Stages, m \in Values : s = stage[r] /\ m = model[r]
    BY <1>3
  <2>1. /\ pc' = [pc EXCEPT ![r] = "done"]
        /\ UNCHANGED <<stage, model, met, Due, exists, Alert, gone, refused>>
    BY <1>8 DEF Fill, Goes, GoTo, history, promises, Due, Alert
  <2>2. Moves(r, "done", s, m, Missing)
    BY <1>1, <2>1 DEF Moves, ObjectsInv, Typed
  <2>3. /\ r \in Loads \cup Finds => s = "main"
        /\ r \in Creates /\ s = "main" => m = Missing
        /\ r \in Edits /\ s = "reply" => m # Missing
        /\ r \in Alert => s = "main"
    BY <1>3 DEF ControlOf, MadeOf
  <2>4. Due' # {} => Holds(Current)' /\ (~refused' => Holds(store)')
    BY <1>1, <1>3, <1>4, <2>1 DEF Holds, Current
  <2>5. Due' = Due /\ (Holds(store) => Holds(store)')
    BY <1>1, <2>1 DEF Holds
  <2>6. exists => exists' /\ Current' # Missing /\ (store # Missing => store' # Missing)
    BY <1>1, <1>3, <2>1 DEF Current
  <2>7. met = {} => cache' = Missing \/ refused' \/ store' = cache'
    BY <1>1, <1>3, <1>6, <2>1
  <2>8. /\ UNCHANGED <<met, Alert>> /\ cache' \in Values /\ store' \in Values
        /\ Due' \subseteq Creates \cup Edits /\ gone' \in BOOLEAN /\ refused' \in BOOLEAN
        /\ exists' \in BOOLEAN /\ (exists' => exists)
    BY <1>1, <1>3, <2>1
  <2>9. "done" \in {"done", "failed"}
    OBVIOUS
  <2> QED BY <1>2, <2>2, <2>3, <2>4, <2>5, <2>6, <2>7, <2>8, <2>9, EndStep
<1> QED BY <1>7, <1>8

-----------------------------------------------------------------------------
(* Objects: the steps of create, edit and remove                           *)

LEMMA CreateModelStep ==
    ASSUME ObjectsInv, NEW r \in Requests, CreateModel(r) PROVE ObjectsInv'
<1> PICK s, m, g : s = stage[r] /\ m = {r} /\ g = got[r]
  OBVIOUS
<1>1. /\ pc[r] = "create" /\ pc' = [pc EXCEPT ![r] = "save"] /\ model' = [model EXCEPT ![r] = m]
      /\ cache' = m /\ UNCHANGED <<store, stage, got>>
      /\ UNCHANGED <<met, Due, exists, Alert, gone, refused>>
  BY DEF CreateModel, GoTo, history, promises, Due, Alert
<1>2. pc[r] \in Moving /\ "save" \in Labels
  BY <1>1 DEF Moving, Labels
<1>3. /\ r \in Active /\ s \in Stages /\ g \in Values /\ store \in Values
      /\ Alert \subseteq Creates
      /\ Due \subseteq Creates \cup Edits
      /\ exists \in BOOLEAN /\ gone \in BOOLEAN /\ refused \in BOOLEAN
      /\ ControlOf(r, pc[r], s, model[r], g) /\ KeptOf(r, pc[r], s, model[r], g)
      /\ MadeOf(r, pc[r], s, g)
      /\ exists => Removes \cap Active = {}
      /\ Alert # {} => exists
  BY <1>2, RequestFacts
<1>4. r \in Creates /\ s = "work" /\ g = Missing /\ Due = {} /\ r \notin Alert
  BY <1>1, <1>3 DEF ControlOf, KeptOf, MadeOf
<1>5. m \in Values /\ m # Missing
  BY <1>4, MissingIsNoSet DEF Values
<1>6. Moves(r, "save", s, m, g)
  BY <1>1 DEF Moves, ObjectsInv, Typed
<1>7. ControlOf(r, "save", s, m, g)
  BY <1>4, ObjectsAssumption DEF ControlOf
<1>8. KeptOf(r, "save", s, m, g)' /\ OwnOf(r, "save", s, m)' /\ MadeOf(r, "save", s, g)'
  BY <1>1, <1>4 DEF KeptOf, OwnOf, SavedAs, MadeOf
<1>9. Active' = Active
  <2>1. Typed /\ Active \cup {r} = Active /\ "save" \in Moving
    BY <1>3 DEF ObjectsInv, Moving, Labels
  <2> QED BY <1>2, <1>3, <1>5, <1>6, <2>1, MoveFacts
<1>10. exists' => Current' # Missing /\ Removes \cap Active' = {}
  BY <1>1, <1>3, <1>5, <1>9 DEF Current
<1>11. /\ cache' \in Values /\ store' \in Values /\ UNCHANGED met /\ Due' = {}
       /\ Due' \subseteq Creates \cup Edits /\ Alert' \subseteq Alert
       /\ exists' \in BOOLEAN /\ gone' \in BOOLEAN /\ refused' \in BOOLEAN
       /\ Alert' # {} => exists' /\ (store # Missing => store' # Missing)
  BY <1>1, <1>3, <1>4, <1>5
<1> QED BY <1>2, <1>3, <1>5, <1>6, <1>7, <1>8, <1>10, <1>11, MoveStep

(* An edit writes the cache, from the model it has found.                  *)
LEMMA WriteStep ==
    ASSUME ObjectsInv, NEW r \in Requests, UpdateSync(r) \/ SaveSync(r) PROVE ObjectsInv'
<1> PICK s, m, g : s = stage[r] /\ m = model[r] /\ g = got[r]
  OBVIOUS
<1> PICK l : l = IF pc[r] = "update" THEN "save sync" ELSE "save"
  OBVIOUS
<1>1. /\ pc[r] \in {"update", "save sync"} /\ pc' = [pc EXCEPT ![r] = l]
      /\ cache' = Saved(r) \/ cache' = m \cup {r}
      /\ UNCHANGED <<store, stage, model, got>>
      /\ UNCHANGED <<met, Due, exists, Alert, gone, refused>>
  BY DEF UpdateSync, SaveSync, merge, GoTo, history, promises, Due, Alert
<1>2. pc[r] \in Moving /\ l \in Labels /\ l \in Moving /\ l \in {"save sync", "save"}
  BY <1>1 DEF Moving, Labels
<1>3. /\ r \in Active /\ s \in Stages /\ m \in Values /\ g \in Values /\ store \in Values
      /\ Due \subseteq Creates \cup Edits
      /\ exists \in BOOLEAN /\ gone \in BOOLEAN /\ refused \in BOOLEAN
      /\ ControlOf(r, pc[r], s, m, g) /\ KeptOf(r, pc[r], s, m, g)
      /\ MadeOf(r, pc[r], s, g)
      /\ Due # {} /\ ~refused => Holds(store)
      /\ exists => Removes \cap Active = {}
      /\ Alert # {} => exists
  BY <1>2, RequestFacts
<1>4. r \in Edits /\ s = "work" /\ g = Missing /\ r \notin Alert /\ m # Missing /\ r \notin Creates
  BY <1>1, <1>3, ObjectsAssumption DEF ControlOf, MadeOf
<1>5. cache' = m \cup {r} /\ cache' \in Values /\ cache' # Missing
  BY <1>1, <1>3, <1>4, MergedIsNoHole DEF Saved, merge
<1>6. Moves(r, l, s, m, g)
  BY <1>1 DEF Moves, ObjectsInv, Typed
<1>7. ControlOf(r, l, s, m, g)
  BY <1>2, <1>3, <1>4 DEF ControlOf
<1>8. Due # {} => Holds(m)
  BY <1>1, <1>3, <1>4 DEF KeptOf
<1>9. KeptOf(r, l, s, m, g)' /\ OwnOf(r, l, s, m)' /\ MadeOf(r, l, s, g)'
  <2>1. KeptOf(r, l, s, m, g)'
    BY <1>1, <1>2, <1>3, <1>4, <1>8 DEF KeptOf, Holds
  <2>2. OwnOf(r, l, s, m)' /\ MadeOf(r, l, s, g)'
    BY <1>1, <1>2, <1>4, <1>5 DEF OwnOf, SavedAs, MadeOf
  <2> QED BY <2>1, <2>2
<1>10. Due' # {} => Holds(Current)' /\ (~refused' => Holds(store)')
  BY <1>1, <1>3, <1>5, <1>8 DEF Holds, Current
<1>11. Due' = Due /\ (Holds(store) => Holds(store)')
  BY <1>1 DEF Holds
<1>12. Active' = Active
  <2>1. Typed /\ Active \cup {r} = Active
    BY <1>3 DEF ObjectsInv
  <2> QED BY <1>2, <1>3, <1>6, <2>1, MoveFacts
<1>13. exists' => Current' # Missing /\ Removes \cap Active' = {}
  BY <1>1, <1>3, <1>5, <1>12 DEF Current
<1>14. /\ store' \in Values /\ UNCHANGED met
       /\ Due' \subseteq Creates \cup Edits /\ Alert' \subseteq Alert
       /\ exists' \in BOOLEAN /\ gone' \in BOOLEAN /\ refused' \in BOOLEAN
       /\ Alert' # {} => exists' /\ (store # Missing => store' # Missing)
  BY <1>1, <1>3
<1>15. l # "fill" /\ l \in {"save sync", "save", "delete sync"}
  BY <1>2
<1> QED BY <1>2, <1>3, <1>5, <1>6, <1>7, <1>9, <1>10, <1>11, <1>13, <1>14, <1>15, MoveStep

LEMMA StoreSavesStep ==
    ASSUME ObjectsInv, NEW r \in Requests, StoreSaves(r) PROVE ObjectsInv'
<1> PICK s, m, g : s = stage[r] /\ m = model[r] /\ g = got[r]
  OBVIOUS
<1>1. /\ pc[r] = "save" /\ pc' = [pc EXCEPT ![r] = "saved"]
      /\ store' = SavedAs(r, m) /\ UNCHANGED <<cache, stage, model, got>>
      /\ UNCHANGED <<met, Due, exists, Alert, gone, refused>>
  BY DEF StoreSaves, Saved, merge, SavedAs, GoTo, history, promises, Due, Alert
<1>2. pc[r] \in Moving /\ "saved" \in Labels /\ "saved" \in Moving
  BY <1>1 DEF Moving, Labels
<1>3. /\ r \in Active /\ s \in Stages /\ m \in Values /\ g \in Values /\ cache \in Values
      /\ Due \subseteq Creates \cup Edits
      /\ exists \in BOOLEAN /\ gone \in BOOLEAN /\ refused \in BOOLEAN
      /\ ControlOf(r, pc[r], s, m, g) /\ KeptOf(r, pc[r], s, m, g) /\ OwnOf(r, pc[r], s, m)
      /\ MadeOf(r, pc[r], s, g)
      /\ Due # {} => Holds(Current)
      /\ exists => Removes \cap Active = {}
      /\ Alert # {} => exists
  BY <1>2, RequestFacts
<1>4. /\ r \in Creates \cup Edits /\ s = "work" /\ g = Missing /\ r \notin Alert
      /\ r \in Creates => m = {r} /\ Due = {}
      /\ r \in Edits => m # Missing /\ r \notin Creates /\ (Due # {} => Holds(m))
  BY <1>1, <1>3, ObjectsAssumption DEF ControlOf, MadeOf, KeptOf
<1>5. store' \in Values /\ store' # Missing
  <2>1. CASE r \in Creates
    BY <1>1, <1>4, <2>1, MissingIsNoSet DEF SavedAs, Values
  <2>2. CASE r \in Edits
    BY <1>1, <1>3, <1>4, <2>2, MergedIsNoHole DEF SavedAs
  <2> QED BY <1>4, <2>1, <2>2
<1>6. Moves(r, "saved", s, m, g)
  BY <1>1 DEF Moves, ObjectsInv, Typed
<1>7. ControlOf(r, "saved", s, m, g)
  BY <1>1, <1>3, <1>4 DEF ControlOf
<1>8. Due # {} => Due \subseteq store'
  BY <1>1, <1>4 DEF Holds, SavedAs
<1>9. KeptOf(r, "saved", s, m, g)' /\ OwnOf(r, "saved", s, m)' /\ MadeOf(r, "saved", s, g)'
  <2>1. KeptOf(r, "saved", s, m, g)'
    BY <1>1, <1>3, <1>4 DEF KeptOf, Holds
  <2>2. OwnOf(r, "saved", s, m)' /\ MadeOf(r, "saved", s, g)'
    BY <1>1, <1>3, <1>4 DEF OwnOf, SavedAs, MadeOf
  <2> QED BY <2>1, <2>2
<1>10. Due' # {} => Holds(Current)' /\ (~refused' => Holds(store)')
  BY <1>1, <1>3, <1>5, <1>8 DEF Holds, Current
<1>11. \/ Due' = {}
       \/ Due' = Due /\ (Holds(store) => Holds(store)')
  BY <1>1, <1>5, <1>8 DEF Holds
<1>12. Active' = Active
  <2>1. Typed /\ Active \cup {r} = Active
    BY <1>3 DEF ObjectsInv
  <2> QED BY <1>2, <1>3, <1>6, <2>1, MoveFacts
<1>13. exists' => Current' # Missing /\ Removes \cap Active' = {}
  BY <1>1, <1>3, <1>5, <1>12 DEF Current
<1>14. /\ cache' \in Values /\ UNCHANGED met
       /\ Due' \subseteq Creates \cup Edits /\ Alert' \subseteq Alert
       /\ exists' \in BOOLEAN /\ gone' \in BOOLEAN /\ refused' \in BOOLEAN
       /\ Alert' # {} => exists' /\ (store # Missing => store' # Missing)
  BY <1>1, <1>3, <1>5
<1>15. met = {} => store' = cache'
  BY <1>1, <1>3 DEF OwnOf
<1> QED BY <1>2, <1>3, <1>5, <1>6, <1>7, <1>9, <1>10, <1>11, <1>13, <1>14, <1>15, MoveStep

LEMMA StoreSaveFailsStep ==
    ASSUME ObjectsInv, NEW r \in Requests, StoreSaveFails(r) PROVE ObjectsInv'
<1> PICK s, m, g : s = stage[r] /\ m = model[r] /\ g = got[r]
  OBVIOUS
<1> PICK l : l = IF RunOffline THEN "saved" ELSE "failed"
  OBVIOUS
<1>1. /\ pc[r] = "save" /\ pc' = [pc EXCEPT ![r] = l] /\ refused' = TRUE
      /\ UNCHANGED <<cache, store, stage, model, got, met, Due, exists, Alert, gone>>
  BY DEF StoreSaveFails, GoTo, promises, Due, Alert
<1>2. pc[r] \in Moving /\ l \in Labels /\ l \in {"saved", "failed"}
  BY <1>1 DEF Moving, Labels
<1>3. /\ r \in Active /\ s \in Stages /\ m \in Values /\ g \in Values
      /\ cache \in Values /\ store \in Values
      /\ Due \subseteq Creates \cup Edits /\ exists \in BOOLEAN /\ gone \in BOOLEAN
      /\ ControlOf(r, pc[r], s, m, g) /\ KeptOf(r, pc[r], s, m, g) /\ OwnOf(r, pc[r], s, m)
      /\ MadeOf(r, pc[r], s, g)
      /\ Due # {} => Holds(Current)
      /\ exists => Current # Missing /\ Removes \cap Active = {}
      /\ Alert # {} => exists
  BY <1>2, RequestFacts
<1>4. Moves(r, l, s, m, g)
  BY <1>1 DEF Moves, ObjectsInv, Typed
<1>5. ControlOf(r, l, s, m, g)
  BY <1>1, <1>2, <1>3 DEF ControlOf
<1>6. s = "work"
  BY <1>1, <1>3 DEF ControlOf
<1>7. /\ l \in Moving => KeptOf(r, l, s, m, g)' /\ OwnOf(r, l, s, m)'
      /\ MadeOf(r, l, s, g)'
  <2>1. l \in Moving => l = "saved"
    BY <1>2 DEF Moving
  <2>2. l = "saved" => KeptOf(r, l, s, m, g)'
    BY <1>1, <1>3, <1>6 DEF KeptOf, Holds
  <2>3. l = "saved" => OwnOf(r, l, s, m)'
    BY <1>1, <1>3, <1>6 DEF OwnOf
  <2>4. MadeOf(r, l, s, g)'
    BY <1>1, <1>3, <1>6 DEF MadeOf
  <2> QED BY <2>1, <2>2, <2>3, <2>4
<1>8. Due' # {} => Holds(Current)' /\ (~refused' => Holds(store)')
  BY <1>1, <1>3 DEF Holds, Current
<1>9. Due' = Due /\ (Holds(store) => Holds(store)')
  BY <1>1 DEF Holds
<1>10. Active' \subseteq Active
  <2>1. Typed
    BY DEF ObjectsInv
  <2> QED BY <1>2, <1>3, <1>4, <2>1, MoveFacts
<1>11. exists' => Current' # Missing /\ Removes \cap Active' = {}
  BY <1>1, <1>3, <1>10 DEF Current
<1>12. /\ cache' \in Values /\ store' \in Values /\ UNCHANGED met
       /\ Due' \subseteq Creates \cup Edits /\ Alert' \subseteq Alert
       /\ exists' \in BOOLEAN /\ gone' \in BOOLEAN /\ refused' \in BOOLEAN
       /\ Alert' # {} => exists' /\ (store # Missing => store' # Missing)
  BY <1>1, <1>3
<1>13. l # "fill" /\ refused'
  BY <1>1, <1>2
<1> QED BY <1>2, <1>3, <1>4, <1>5, <1>7, <1>8, <1>9, <1>11, <1>12, <1>13, MoveStep

LEMMA ReplyStep ==
    ASSUME ObjectsInv, NEW r \in Requests, Reply(r) PROVE ObjectsInv'
<1> PICK m, g : m = model[r] /\ g = got[r]
  OBVIOUS
<1>1. /\ pc[r] = "saved" /\ stage' = [stage EXCEPT ![r] = "reply"]
      /\ UNCHANGED <<cache, store, model, got>>
  BY DEF Reply
<1>2. pc[r] \in Moving /\ "find" \in Moving /\ "reply" \in Stages
  BY <1>1 DEF Moving, Labels, Stages
<1>3. /\ r \in Active /\ m \in Values /\ g \in Values /\ cache \in Values
      /\ ControlOf(r, pc[r], stage[r], m, g) /\ KeptOf(r, pc[r], stage[r], m, g)
      /\ OwnOf(r, pc[r], stage[r], m) /\ MadeOf(r, pc[r], stage[r], g)
      /\ Due # {} => Holds(Current)
      /\ exists => Current # Missing
      /\ met = {} => cache = Missing \/ refused \/ store = cache
  BY <1>1, <1>2, RequestFacts
<1>4. /\ r \in Creates \cup Edits /\ r \notin Loads \cup Finds /\ g = Missing /\ r \notin Alert
      /\ r \in Creates => m = {r} /\ Due = {} /\ r \notin Edits
      /\ r \in Edits => /\ m # Missing /\ r \notin Creates /\ r \notin Removes
                        /\ (Due # {} => Holds(m))
  BY <1>1, <1>3, ObjectsAssumption DEF ControlOf, KeptOf, MadeOf
<1>5. /\ model' = [model EXCEPT ![r] = m] /\ got' = [got EXCEPT ![r] = got[r]]
      /\ got' = [got EXCEPT ![r] = g]
  BY <1>1 DEF ObjectsInv, Typed
<1>6. CASE r \in Creates
  <2>1. Answer(r, cache)
    BY <1>6 DEF Reply
  <2>2. cache # Missing /\ r \notin met =>
            /\ Current' # Missing /\ r \in Current'
            /\ refused \/ (store # Missing /\ r \in store)
    <3>1. {r} # Missing
      BY MissingIsNoSet
    <3> QED BY <1>1, <1>3, <1>4, <1>6, <3>1 DEF OwnOf, SavedAs, Current
  <2>3. exists \/ cache # Missing => Current' # Missing
    BY <1>1, <1>3 DEF Current
  <2>4. /\ r \in Loads \cup Finds => "reply" = "main"
        /\ r \in Creates /\ "reply" = "main" => m = Missing
        /\ r \in Edits /\ "reply" = "reply" => m # Missing
        /\ r \in Alert => "reply" = "main"
    BY <1>4
  <2>5. Due # {} => Current' # Missing /\ Due \subseteq Current'
    BY <1>4, <1>6
  <2> QED BY <1>1, <1>2, <1>3, <1>5, <2>1, <2>2, <2>3, <2>4, <2>5, AnswerStep
<1>7. CASE r \notin Creates
  <2>1. /\ pc' = [pc EXCEPT ![r] = "find"]
        /\ UNCHANGED <<met, Due, exists, Alert, gone, refused>>
    BY <1>7 DEF Reply, Goes, GoTo, history, promises, Due, Alert
  <2>2. Moves(r, "find", "reply", m, g)
    BY <1>1, <1>5, <2>1 DEF Moves
  <2>3. ControlOf(r, "find", "reply", m, g)
    BY <1>4, <1>7, ObjectsAssumption DEF ControlOf
  <2>4. KeptOf(r, "find", "reply", m, g)
    BY <1>4, <1>7 DEF KeptOf
  <2>5. OwnOf(r, "find", "reply", m) /\ MadeOf(r, "find", "reply", g)
    BY <1>1, <1>3, <1>4 DEF OwnOf, MadeOf
  <2>6. "find" # "fill" /\ pc[r] \notin {"save sync", "save", "delete sync"}
    BY <1>1
  <2> QED BY <1>1, <1>2, <1>3, <2>1, <2>2, <2>3, <2>4, <2>5, <2>6, QuietStep
<1> QED BY <1>6, <1>7

LEMMA RollbackStep ==
    ASSUME ObjectsInv, NEW r \in Requests, Rollback(r) PROVE ObjectsInv'
<1> PICK s, m, g : s = stage[r] /\ m = model[r] /\ g = got[r]
  OBVIOUS
<1>1. /\ pc[r] = "rollback" /\ pc' = [pc EXCEPT ![r] = "restore"]
      /\ cache' = m /\ UNCHANGED <<store, stage, model, got>>
      /\ UNCHANGED <<met, Due, exists, Alert, gone, refused>>
  BY DEF Rollback, Goes, GoTo, history, promises, Due, Alert
<1>2. pc[r] \in Moving /\ "restore" \in Labels /\ "restore" \in Moving
  BY <1>1 DEF Moving, Labels
<1>3. /\ r \in Active /\ s \in Stages /\ m \in Values /\ g \in Values /\ store \in Values
      /\ Due \subseteq Creates \cup Edits
      /\ exists \in BOOLEAN /\ gone \in BOOLEAN /\ refused \in BOOLEAN
      /\ ControlOf(r, pc[r], s, m, g) /\ KeptOf(r, pc[r], s, m, g) /\ OwnOf(r, pc[r], s, m)
      /\ MadeOf(r, pc[r], s, g)
      /\ Due # {} /\ ~refused => Holds(store)
      /\ exists => Removes \cap Active = {}
      /\ Alert # {} => exists
  BY <1>2, RequestFacts
<1>4. /\ r \in Edits /\ s = "reply" /\ g = Missing /\ r \notin Alert /\ m # Missing
      /\ (Due # {} => Holds(m)) /\ r \in met
  BY <1>1, <1>3 DEF ControlOf, MadeOf, KeptOf, OwnOf
<1>5. Moves(r, "restore", s, m, g)
  BY <1>1 DEF Moves, ObjectsInv, Typed
<1>6. ControlOf(r, "restore", s, m, g)
  BY <1>1, <1>3, <1>4 DEF ControlOf
<1>7. KeptOf(r, "restore", s, m, g)' /\ OwnOf(r, "restore", s, m)' /\ MadeOf(r, "restore", s, g)'
  <2>1. KeptOf(r, "restore", s, m, g)'
    BY <1>1, <1>3, <1>4 DEF KeptOf, Holds
  <2>2. OwnOf(r, "restore", s, m)' /\ MadeOf(r, "restore", s, g)'
    BY <1>1, <1>4 DEF OwnOf, MadeOf
  <2> QED BY <2>1, <2>2
<1>8. Due' # {} => Holds(Current)' /\ (~refused' => Holds(store)')
  BY <1>1, <1>3, <1>4 DEF Holds, Current
<1>9. Due' = Due /\ (Holds(store) => Holds(store)')
  BY <1>1 DEF Holds
<1>10. Active' = Active
  <2>1. Typed /\ Active \cup {r} = Active
    BY <1>3 DEF ObjectsInv
  <2> QED BY <1>2, <1>3, <1>5, <2>1, MoveFacts
<1>11. exists' => Current' # Missing /\ Removes \cap Active' = {}
  BY <1>1, <1>3, <1>4, <1>10 DEF Current
<1>12. /\ cache' \in Values /\ store' \in Values /\ UNCHANGED met
       /\ Due' \subseteq Creates \cup Edits /\ Alert' \subseteq Alert
       /\ exists' \in BOOLEAN /\ gone' \in BOOLEAN /\ refused' \in BOOLEAN
       /\ Alert' # {} => exists' /\ (store # Missing => store' # Missing)
  BY <1>1, <1>3
<1>13. met # {}
  BY <1>4
<1> QED BY <1>2, <1>3, <1>5, <1>6, <1>7, <1>8, <1>9, <1>11, <1>12, <1>13, MoveStep

LEMMA StoreRestoresStep ==
    ASSUME ObjectsInv, NEW r \in Requests, StoreRestores(r) PROVE ObjectsInv'
<1> PICK s, m : s = stage[r] /\ m = model[r]
  OBVIOUS
<1>1. /\ pc[r] = "restore" /\ pc' = [pc EXCEPT ![r] = "failed"]
      /\ \/ store' = m /\ UNCHANGED refused
         \/ refused' = TRUE /\ UNCHANGED store
      /\ UNCHANGED <<cache, stage, model, got, met, Due, exists, Alert, gone>>
  BY DEF StoreRestores, GoTo, promises, Due, Alert
<1>2. pc[r] \in Moving
  BY <1>1 DEF Moving, Labels
<1>3. /\ s \in Stages /\ m \in Values /\ cache \in Values /\ store \in Values
      /\ Due \subseteq Creates \cup Edits
      /\ exists \in BOOLEAN /\ gone \in BOOLEAN /\ refused \in BOOLEAN
      /\ ControlOf(r, pc[r], s, m, got[r]) /\ KeptOf(r, pc[r], s, m, got[r])
      /\ OwnOf(r, pc[r], s, m) /\ MadeOf(r, pc[r], s, got[r])
      /\ Due # {} => Holds(Current) /\ (~refused => Holds(store))
      /\ exists => Current # Missing
  BY <1>2, RequestFacts
<1>4. /\ r \in Edits /\ r \notin Creates /\ s = "reply" /\ m # Missing /\ r \notin Alert
      /\ (Due # {} => Holds(m)) /\ r \in met /\ r \notin Loads \cup Finds
  BY <1>1, <1>3, ObjectsAssumption DEF ControlOf, KeptOf, OwnOf, MadeOf
<1>5. Moves(r, "failed", s, m, got[r])
  BY <1>1 DEF Moves, ObjectsInv, Typed
<1>6. Due' # {} => Holds(Current)' /\ (~refused' => Holds(store)')
  BY <1>1, <1>3, <1>4 DEF Holds, Current
<1>7. Due' = Due /\ (Holds(store) => Holds(store)')
  <2>1. Holds(store) => Holds(store)'
    BY <1>1, <1>4 DEF Holds
  <2> QED BY <1>1, <2>1
<1>8. exists => exists' /\ Current' # Missing /\ (store # Missing => store' # Missing)
  BY <1>1, <1>3, <1>4 DEF Current
<1>9. /\ UNCHANGED <<met, Alert>> /\ cache' \in Values /\ store' \in Values
      /\ Due' \subseteq Creates \cup Edits /\ gone' \in BOOLEAN /\ refused' \in BOOLEAN
      /\ exists' \in BOOLEAN /\ (exists' => exists) /\ met # {}
  BY <1>1, <1>3, <1>4
<1>10. "failed" \in {"done", "failed"}
  OBVIOUS
<1> QED BY <1>2, <1>3, <1>4, <1>5, <1>6, <1>7, <1>8, <1>9, <1>10, EndStep

LEMMA StoreDeletesStep ==
    ASSUME ObjectsInv, NEW r \in Requests, StoreDeletes(r) PROVE ObjectsInv'
<1> PICK s, m, g : s = stage[r] /\ m = model[r] /\ g = got[r]
  OBVIOUS
<1>1. /\ pc[r] = "delete" /\ pc' = [pc EXCEPT ![r] = "delete sync"]
      /\ store' = Missing \/ store' = store
      /\ UNCHANGED <<cache, stage, model, got, met, Due, exists, Alert, gone, refused>>
  BY DEF StoreDeletes, GoTo, promises, Due, Alert
<1>2. pc[r] \in Moving /\ "delete sync" \in Labels
  BY <1>1 DEF Moving, Labels
<1>3. /\ r \in Active /\ s \in Stages /\ m \in Values /\ g \in Values
      /\ cache \in Values /\ store \in Values
      /\ exists \in BOOLEAN /\ gone \in BOOLEAN /\ refused \in BOOLEAN
      /\ ControlOf(r, pc[r], s, m, g) /\ KeptOf(r, pc[r], s, m, g)
      /\ exists => Removes \cap Active = {}
      /\ Alert # {} => exists
  BY <1>2, RequestFacts
<1>4. /\ r \in Removes /\ s = "work" /\ Due = {} /\ ~exists /\ Alert = {}
  BY <1>1, <1>3 DEF ControlOf, KeptOf
<1>5. Moves(r, "delete sync", s, m, g)
  BY <1>1 DEF Moves, ObjectsInv, Typed
<1>6. ControlOf(r, "delete sync", s, m, g)
  BY <1>1, <1>3, <1>4 DEF ControlOf
<1>7. KeptOf(r, "delete sync", s, m, g)' /\ OwnOf(r, "delete sync", s, m)'
      /\ MadeOf(r, "delete sync", s, g)'
  BY <1>1, <1>4 DEF KeptOf, OwnOf, MadeOf
<1>8. /\ cache' \in Values /\ store' \in Values /\ UNCHANGED met /\ Due' = {}
      /\ Due' \subseteq Creates \cup Edits /\ Alert' \subseteq Alert
      /\ exists' \in BOOLEAN /\ gone' \in BOOLEAN /\ refused' \in BOOLEAN
      /\ ~exists' /\ Alert' = {}
  BY <1>1, <1>3, <1>4 DEF Values
<1>9. "delete sync" # "fill" /\ "delete sync" \in {"save sync", "save", "delete sync"}
  OBVIOUS
<1> QED BY <1>2, <1>3, <1>5, <1>6, <1>7, <1>8, <1>9, MoveStep

LEMMA DeleteSyncStep ==
    ASSUME ObjectsInv, NEW r \in Requests, DeleteSync(r) PROVE ObjectsInv'
<1> PICK s, m : s = stage[r] /\ m = model[r]
  OBVIOUS
<1>1. /\ pc[r] = "delete sync" /\ cache' = Missing /\ Answer(r, m)
      /\ UNCHANGED <<store, stage, model, got>>
  BY DEF DeleteSync
<1>2. pc[r] \in Moving
  BY <1>1 DEF Moving, Labels
<1>3. /\ r \in Active /\ s \in Stages /\ m \in Values
      /\ ControlOf(r, pc[r], s, m, got[r]) /\ KeptOf(r, pc[r], s, m, got[r])
      /\ exists => Removes \cap Active = {}
      /\ Alert # {} => exists
  BY <1>2, RequestFacts
<1>4. /\ r \in Removes /\ s = "work" /\ Due = {} /\ ~exists /\ Alert = {}
      /\ r \notin Creates /\ r \notin Edits /\ r \notin Loads \cup Finds
  BY <1>1, <1>3, ObjectsAssumption DEF ControlOf, KeptOf
<1>5. /\ stage' = [stage EXCEPT ![r] = s] /\ model' = [model EXCEPT ![r] = m]
      /\ got' = [got EXCEPT ![r] = got[r]]
  BY <1>1 DEF ObjectsInv, Typed
<1>6. model[r] # {r}
  <2>1. {r} # Missing
    BY MissingIsNoSet
  <2> QED BY <1>3, <1>4, <2>1 DEF Values
<1>7. cache' \in Values
  BY <1>1 DEF Values
<1> QED BY <1>1, <1>2, <1>3, <1>4, <1>5, <1>6, <1>7, AnswerStep

-----------------------------------------------------------------------------
(* Objects: a request begins, the process is restarted                     *)

LEMMA BeginStep ==
    ASSUME ObjectsInv, NEW r \in Requests, Begin(r) PROVE ObjectsInv'
<1> PICK l : l = IF r \in Loads THEN "query" ELSE "find"
  OBVIOUS
<1>1. Typed /\ Control /\ Alone /\ Kept /\ Own /\ Made /\ Settled
  BY DEF ObjectsInv
<1>2. /\ pc[r] = "new" /\ pc' = [pc EXCEPT ![r] = l]
      /\ met' = (IF Active = {} THEN met ELSE met \cup Active \cup {r})
      /\ UNCHANGED <<cache, store, stage, model, got, refused>>
  BY DEF Begin, GoTo
<1>3. \/ /\ r \in Removes /\ r \notin Creates /\ r \notin Loads
         /\ Due' = {} /\ exists' = FALSE /\ Alert' = {} /\ gone' = gone
      \/ /\ r \in Creates /\ r \notin Removes /\ r \notin Loads
         /\ Alert' = Alert \/ (exists /\ Alert' = Alert \cup {r})
         /\ gone' = FALSE /\ Due' = Due /\ exists' = exists
      \/ /\ r \in Loads /\ r \notin Removes /\ r \notin Creates
         /\ Due' = (IF refused THEN {} ELSE Due)
         /\ exists' = exists /\ Alert' = Alert /\ gone' = gone
      \/ /\ r \in Edits \cup Finds /\ r \notin Removes /\ r \notin Creates /\ r \notin Loads
         /\ Due' = Due /\ exists' = exists /\ Alert' = Alert /\ gone' = gone
  BY ObjectsAssumption DEF Begin, Due, Alert
<1>4. /\ l \in {"query", "find"} /\ l \in Labels /\ l \in Moving
      /\ (r \in Loads => l = "query") /\ (r \notin Loads => l = "find")
  BY DEF Labels, Moving
<1>5. /\ r \notin Active /\ Active \subseteq Requests
      /\ \A q : q \in Active <=> q \in Requests /\ pc[q] \in Moving
  <2>1. "new" \notin Moving
    BY DEF Moving
  <2> QED BY <1>1, <1>2, <2>1, ActiveFacts
<1>6. /\ pc' \in [Requests -> Labels] /\ pc'[r] = l
      /\ \A q \in Requests : q # r => pc'[q] = pc[q]
  BY <1>1, <1>2, <1>4 DEF Typed
<1>7. Typed'
  <2>1. /\ met' \subseteq Requests /\ Due' \subseteq Creates \cup Edits
        /\ Alert' \subseteq Creates
        /\ exists' \in BOOLEAN /\ gone' \in BOOLEAN
    BY <1>1, <1>2, <1>3, <1>5 DEF Typed
  <2> QED BY <1>1, <1>2, <1>6, <2>1 DEF Typed
<1>8. Active' = Active \cup {r}
  <2>1. \A q : q \in Active' <=> q \in Requests /\ pc'[q] \in Moving
    BY <1>6 DEF Active, Ended, Waiting, Moving
  <2> QED BY <1>4, <1>5, <1>6, <2>1
<1>9. Control'
  <2>1. ASSUME NEW q \in Requests PROVE ControlOf(q, pc[q], stage[q], model[q], got[q])'
    <3>1. ControlOf(q, pc[q], stage[q], model[q], got[q])
      BY <1>1 DEF Control
    <3>2. CASE q = r
      <4>1. /\ stage'[q] = "main" /\ got'[q] = Missing /\ pc'[q] = l
            /\ r \in Creates => model'[q] = Missing
        BY <1>2, <1>6, <3>1, <3>2 DEF ControlOf
      <4> QED BY <1>4, <3>2, <4>1 DEF ControlOf
    <3>3. CASE q # r
      BY <1>2, <1>6, <3>1, <3>3 DEF ControlOf
    <3> QED BY <3>2, <3>3
  <2> QED BY <2>1 DEF Control
<1>10. stage[r] = "main" /\ got[r] = Missing
  BY <1>1, <1>2 DEF Control, ControlOf
<1>11. Alone'
  BY <1>2, <1>8 DEF Alone
<1>12. Due' = Due \/ Due' = {}
  BY <1>3
<1>13. Kept'
  <2>1. Due' # {} => Holds(Current)' /\ (~refused' => Holds(store)')
    BY <1>1, <1>2, <1>12 DEF Kept, Holds, Current
  <2>2. ASSUME NEW q \in Active PROVE KeptOf(q, pc[q], stage[q], model[q], got[q])'
    <3>1. KeptOf(q, pc[q], stage[q], model[q], got[q]) /\ q \in Requests /\ q # r
      BY <1>1, <1>5 DEF Kept
    <3>2. pc'[q] = pc[q]
      BY <1>6, <3>1
    <3> QED BY <1>2, <1>12, <3>1, <3>2 DEF KeptOf, Holds
  <2>3. KeptOf(r, pc[r], stage[r], model[r], got[r])'
    <3>1. Due' # {} /\ l = "query" => Holds(store)'
      <4>1. l = "query" => r \in Loads
        BY <1>4
      <4>2. Due # {} /\ ~refused => Holds(store)
        BY <1>1 DEF Kept
      <4> QED BY <1>2, <1>3, <4>1, <4>2 DEF Holds
    <3>2. r \in Removes => Due' = {}
      BY <1>3
    <3> QED BY <1>2, <1>4, <1>6, <1>10, <3>1, <3>2 DEF KeptOf
  <2> QED BY <1>8, <2>1, <2>2, <2>3 DEF Kept
<1>14. Own'
  <2>1. ASSUME NEW q \in Active PROVE OwnOf(q, pc[q], stage[q], model[q])'
    BY <1>2 DEF OwnOf
  <2>2. OwnOf(r, pc[r], stage[r], model[r])'
    BY <1>2, <1>4, <1>6, <1>10 DEF OwnOf
  <2> QED BY <1>8, <2>1, <2>2 DEF Own
<1>15. Made'
  <2>1. exists' => Current' # Missing /\ Removes \cap Active' = {}
    BY <1>1, <1>2, <1>3, <1>8 DEF Made, Current
  <2>2. Alert' # {} => exists'
    BY <1>1, <1>3 DEF Made
  <2>3. ASSUME NEW q \in Requests, q # r PROVE MadeOf(q, pc[q], stage[q], got[q])'
    <3>1. MadeOf(q, pc[q], stage[q], got[q]) /\ pc'[q] = pc[q]
      BY <1>1, <1>6, <2>3 DEF Made
    <3>2. q \in Alert' => q \in Alert
      BY <1>3, <2>3
    <3> QED BY <1>2, <3>1, <3>2 DEF MadeOf
  <2>4. MadeOf(r, pc[r], stage[r], got[r])'
    <3>1. r \notin Alert
      BY <1>1, <1>2 DEF Made, MadeOf
    <3>2. r \in Alert' => l = "find"
      BY <1>3, <1>4, <3>1
    <3> QED BY <1>2, <1>6, <1>10, <3>2 DEF MadeOf
  <2> QED BY <2>1, <2>2, <2>3, <2>4 DEF Made
<1>16. Settled'
  <2>1. met' = {} => met = {} /\ Active = {}
    BY <1>2
  <2>2. met' = {} => cache = Missing \/ refused \/ store = cache
    BY <1>1, <2>1 DEF Settled
  <2>3. \A q \in Active' : met' = {} => pc'[q] # "fill"
    BY <1>4, <1>6, <1>8, <2>1
  <2> QED BY <1>2, <2>2, <2>3 DEF Settled
<1> QED BY <1>7, <1>9, <1>11, <1>13, <1>14, <1>15, <1>16 DEF ObjectsInv

LEMMA CrashStep ==
    ASSUME ObjectsInv, Crash PROVE ObjectsInv'
<1>1. Typed /\ Control /\ Kept /\ Made
  BY DEF ObjectsInv
<1>2. /\ cache' = Missing /\ pc' = [r \in Requests |-> IF r \in Active THEN "lost" ELSE pc[r]]
      /\ Due' = (IF refused THEN {} ELSE Due)
      /\ (IF store = Missing THEN exists' = FALSE /\ Alert' = {} ELSE UNCHANGED <<exists, Alert>>)
      /\ UNCHANGED <<store, stage, model, got, met, refused, gone>>
  BY DEF Crash, Due, Alert
<1>3. /\ pc' \in [Requests -> Labels]
      /\ \A r \in Requests : pc'[r] = pc[r] \/ (pc'[r] = "lost" /\ r \in Active)
      /\ \A r \in Requests : pc'[r] \notin Moving
  <2>1. "lost" \in Labels /\ "lost" \notin Moving
    BY DEF Labels, Moving
  <2>2. \A q : q \in Active <=> q \in Requests /\ pc[q] \in Moving
    BY <1>1, ActiveFacts
  <2> QED BY <1>1, <1>2, <2>1, <2>2 DEF Typed
<1>4. Typed'
  <2>1. Due' \subseteq Creates \cup Edits /\ Alert' \subseteq Creates /\ exists' \in BOOLEAN
    BY <1>1, <1>2 DEF Typed
  <2>2. cache' \in Values
    BY <1>2 DEF Values
  <2> QED BY <1>1, <1>2, <1>3, <2>1, <2>2 DEF Typed
<1>5. Active' = {}
  <2>1. \A q : q \in Active' => q \in Requests /\ pc'[q] \in Moving
    BY <1>3 DEF Active, Ended, Waiting, Moving
  <2> QED BY <1>3, <2>1
<1>6. Control'
  <2>1. ASSUME NEW q \in Requests PROVE ControlOf(q, pc[q], stage[q], model[q], got[q])'
    <3>1. ControlOf(q, pc[q], stage[q], model[q], got[q])
      BY <1>1 DEF Control
    <3>2. pc'[q] = pc[q] \/ pc'[q] = "lost"
      BY <1>3
    <3> QED BY <1>2, <3>1, <3>2 DEF ControlOf
  <2> QED BY <2>1 DEF Control
<1>7. Alone' /\ Own'
  BY <1>5 DEF Alone, Own
<1>8. Kept'
  <2>1. Due' # {} => Holds(Current)' /\ (~refused' => Holds(store)')
    BY <1>1, <1>2 DEF Kept, Holds, Current
  <2> QED BY <1>5, <2>1 DEF Kept
<1>9. Made'
  <2>1. exists' => Current' # Missing /\ Removes \cap Active' = {}
    BY <1>2, <1>5 DEF Current
  <2>2. Alert' # {} => exists'
    BY <1>1, <1>2 DEF Made
  <2>3. ASSUME NEW q \in Requests PROVE MadeOf(q, pc[q], stage[q], got[q])'
    <3>1. MadeOf(q, pc[q], stage[q], got[q]) /\ (q \in Alert' => q \in Alert)
      BY <1>1, <1>2 DEF Made
    <3>2. pc'[q] = pc[q] \/ pc'[q] = "lost"
      BY <1>3
    <3> QED BY <1>2, <3>1, <3>2 DEF MadeOf
  <2> QED BY <2>1, <2>2, <2>3 DEF Made
<1>10. Settled'
  BY <1>2, <1>5 DEF Settled
<1> QED BY <1>4, <1>6, <1>7, <1>8, <1>9, <1>10 DEF ObjectsInv

-----------------------------------------------------------------------------
(* Objects: the theorems                                                   *)

LEMMA ObjectsInit == Init => ObjectsInv
<1> SUFFICES ASSUME Init PROVE ObjectsInv
  OBVIOUS
<1>1. Typed /\ Active = {}
  BY DEF Init, Typed, Values, Stages, Labels, Active, Waiting, Due, Alert
<1>2. Control /\ Made
  BY <1>1 DEF Init, Control, ControlOf, Made, MadeOf, Alert
<1> QED BY <1>1, <1>2 DEF Init, ObjectsInv, Alone, Kept, Own, Settled, Due

LEMMA ObjectsStep == ObjectsInv /\ [Next]_vars => ObjectsInv'
<1> SUFFICES ASSUME ObjectsInv, [Next]_vars PROVE ObjectsInv'
  OBVIOUS
<1>1. ASSUME NEW r \in Requests, Begin(r) \/ FindInCache(r) \/ FindMisses(r) PROVE ObjectsInv'
  BY <1>1, BeginStep, FindInCacheStep, FindMissesStep
<1>2. ASSUME NEW r \in Requests, StoreFinds(r) \/ StoreFindFails(r) \/ Fill(r) PROVE ObjectsInv'
  BY <1>2, StoreFindsStep, StoreFindFailsStep, FillStep
<1>3. ASSUME NEW r \in Requests,
             \/ CreateModel(r) \/ UpdateSync(r) \/ SaveSync(r) \/ Rollback(r) \/ StoreRestores(r)
             \/ StoreSaves(r) \/ StoreSaveFails(r) \/ Reply(r)
      PROVE  ObjectsInv'
  BY <1>3, CreateModelStep, WriteStep, RollbackStep, StoreRestoresStep, StoreSavesStep,
     StoreSaveFailsStep, ReplyStep
<1>4. ASSUME NEW r \in Requests, StoreDeletes(r) \/ DeleteSync(r) PROVE ObjectsInv'
  BY <1>4, StoreDeletesStep, DeleteSyncStep
<1>5. CASE Crash
  BY <1>5, CrashStep
<1>6. CASE UNCHANGED vars
  <2>1. UNCHANGED <<cache, store, stage, pc, model, got, met, Due, exists, Alert, gone, refused>>
    BY <1>6 DEF vars, reqVars, history, promises, Due, Alert
  <2>2. UNCHANGED Active
    BY <2>1 DEF Active, Ended, Waiting
  <2>3. Typed' /\ Control' /\ Alone'
    BY <2>1, <2>2 DEF ObjectsInv, Typed, Control, ControlOf, Alone
  <2>4. Kept' /\ Own' /\ Made' /\ Settled'
    BY <2>1, <2>2 DEF ObjectsInv, Kept, KeptOf, Holds, Current, Own, OwnOf, Made, MadeOf, Settled
  <2> QED BY <2>3, <2>4 DEF ObjectsInv
<1>7. Creates \cup Edits \cup Removes \subseteq Requests
  BY DEF Requests
<1> QED BY <1>1, <1>2, <1>3, <1>4, <1>5, <1>6, <1>7 DEF Next

(* The inductive invariant always holds.                                   *)
THEOREM ObjectsHold == Spec => []ObjectsInv
BY ObjectsInit, ObjectsStep, PTL DEF Spec

(* Without overlap no update is lost, but by a create whose lookup of the  *)
(* stored document failed and was swallowed: what was acknowledged stays   *)
(* in the object until a remove begins (datasource-factory.js save, find,  *)
(* load).                                                                  *)
THEOREM NoSoloUpdateIsLost == Spec => []SoloUpdatesKept
<1>1. ObjectsInv => SoloUpdatesKept
  BY DEF ObjectsInv, Kept, Holds, SoloUpdatesKept, Due
<1> QED BY <1>1, ObjectsHold, PTL

(* What was acknowledged without overlap is in the store, so a restart     *)
(* keeps it, unless the store has refused a save (datasource-mongodb.js    *)
(* save, which may run offline) or such a create has overwritten it.       *)
THEOREM AcknowledgedSurvives == Spec => []AcknowledgedIsStored
<1>1. ObjectsInv => AcknowledgedIsStored
  BY DEF ObjectsInv, Kept, Holds, AcknowledgedIsStored, Due
<1> QED BY <1>1, ObjectsHold, PTL

(* Creates with one idempotency key make one object, if the second begins  *)
(* after the first was acknowledged and its lookup of the document does    *)
(* not fail in silence (create-model.js, find-model.js).                   *)
THEOREM KeyMakesOne == Spec => []OneCreation
<1>1. ObjectsInv => OneCreation
  <2> SUFFICES ASSUME ObjectsInv, NEW r \in Alert PROVE pc[r] # "create" /\ model[r] # {r}
    BY DEF OneCreation, Alert
  <2>1. r \in Creates /\ r \in Requests
    BY DEF ObjectsInv, Typed, Requests
  <2>2. ControlOf(r, pc[r], stage[r], model[r], got[r]) /\ MadeOf(r, pc[r], stage[r], got[r])
    BY <2>1 DEF ObjectsInv, Control, Made
  <2>3. {r} # Missing
    BY <2>1, MissingIsNoSet
  <2> QED BY <2>1, <2>2, <2>3 DEF ControlOf, MadeOf
<1> QED BY <1>1, ObjectsHold, PTL

(* Requests that never met leave cache and store the same.                 *)
THEOREM StoreIsCurrent == Spec => []StoreCatchesUp
<1>1. ObjectsInv => StoreCatchesUp
  BY DEF ObjectsInv, Settled, StoreCatchesUp
<1> QED BY <1>1, ObjectsHold, PTL

-----------------------------------------------------------------------------
(* Objects: the types                                                      *)

(* Of every value exactly one create is the origin.                        *)
VersionsTyped ==
    /\ cache \in Versions /\ store \in Versions
    /\ model \in [Requests -> Versions] /\ got \in [Requests -> Versions]
HistoryTyped ==
    /\ owed \subseteq Creates \cup Edits /\ warned \subseteq Creates
    /\ blind \subseteq Creates /\ kept \subseteq Removes /\ crashes \in Nat

LEMMA VersionFacts ==
    /\ Missing \in Versions
    /\ \A r \in Creates : {r} \in Versions
    /\ \A r \in Edits : \A m \in Versions \ {Missing} : merge(m, r) \in Versions
<1>1. ASSUME NEW r \in Creates PROVE {r} \in Versions
  <2>1. {r} \cap Creates = {r}
    OBVIOUS
  <2> QED BY <2>1, FS_Singleton DEF Versions
<1>2. ASSUME NEW r \in Edits, NEW m \in Versions \ {Missing} PROVE merge(m, r) \in Versions
  <2>1. r \notin Creates
    BY ObjectsAssumption
  <2>2. (m \cup {r}) \cap Creates = m \cap Creates
    BY <2>1
  <2> QED BY <2>2 DEF merge, Versions
<1> QED BY <1>1, <1>2 DEF Versions

LEMMA VersionsStep == ObjectsInv /\ VersionsTyped /\ [Next]_vars => VersionsTyped'
<1> SUFFICES ASSUME ObjectsInv, VersionsTyped, [Next]_vars PROVE VersionsTyped'
  OBVIOUS
<1>1. ASSUME NEW r \in Requests, NEW m \in Versions,
             cache' \in Versions, store' = store, got' = got \/ got' = [got EXCEPT ![r] = Missing],
             AfterFind(r, m)
      PROVE  VersionsTyped'
  <2>1. model' = model \/ model' = [model EXCEPT ![r] = m]
    BY <1>1 DEF AfterFind, AfterMainFind, AfterWorkFind, Work
  <2>2. model' \in [Requests -> Versions] /\ got' \in [Requests -> Versions]
    BY <1>1, <2>1, VersionFacts DEF VersionsTyped
  <2> QED BY <1>1, <2>2 DEF VersionsTyped
<1>2. ASSUME NEW r \in Requests, FindInCache(r) PROVE VersionsTyped'
  BY <1>1, <1>2 DEF FindInCache, VersionsTyped
<1>3. ASSUME NEW r \in Requests, Begin(r) \/ FindMisses(r) \/ StoreFindFails(r)
                                 \/ SaveSync(r) \/ StoreSaveFails(r) \/ Reply(r)
      PROVE  UNCHANGED <<store, model, got>>
  BY <1>3 DEF Begin, FindMisses, StoreFindFails, SaveSync, StoreSaveFails, Reply
<1>4. ASSUME NEW r \in Requests, Begin(r) \/ FindMisses(r) \/ StoreFindFails(r)
                                 \/ StoreSaveFails(r) \/ Reply(r)
      PROVE  VersionsTyped'
  BY <1>3, <1>4 DEF Begin, FindMisses, StoreFindFails, StoreSaveFails, Reply, VersionsTyped
<1>5. ASSUME NEW r \in Requests, StoreFinds(r) PROVE VersionsTyped'
  BY <1>5 DEF StoreFinds, VersionsTyped
<1>6. ASSUME NEW r \in Requests, Fill(r) PROVE VersionsTyped'
  <2>1. got[r] \in Versions
    BY DEF VersionsTyped
  <2>2. /\ cache' \in Versions /\ store' = store /\ got' = [got EXCEPT ![r] = Missing]
        /\ model' = model \/ AfterFind(r, got[r])
    BY <1>6, <2>1 DEF Fill, VersionsTyped
  <2>3. CASE model' = model
    BY <2>2, <2>3, VersionFacts DEF VersionsTyped
  <2> QED BY <1>1, <2>1, <2>2, <2>3
<1>7. ASSUME NEW r \in Creates, CreateModel(r) PROVE VersionsTyped'
  BY <1>7, VersionFacts DEF CreateModel, VersionsTyped
<1>8. ASSUME NEW r \in Creates \cup Edits, pc[r] \in {"update", "save sync", "save"}
      PROVE  Saved(r) \in Versions /\ (r \in Edits => merge(model[r], r) \in Versions)
  <2>1. r \in Requests /\ model[r] \in Versions
    BY DEF Requests, VersionsTyped
  <2>2. ControlOf(r, pc[r], stage[r], model[r], got[r])
    BY <2>1 DEF ObjectsInv, Control
  <2>3. r \in Edits => model[r] # Missing
    BY <1>8, <2>2 DEF ControlOf
  <2> QED BY <2>1, <2>3, VersionFacts DEF Saved
<1>9. ASSUME NEW r \in Edits, UpdateSync(r) \/ SaveSync(r) PROVE VersionsTyped'
  <2>1. cache' \in Versions /\ UNCHANGED <<store, model, got>>
    <3>1. r \notin Creates
      BY ObjectsAssumption
    <3> QED BY <1>8, <1>9, <3>1 DEF UpdateSync, SaveSync
  <2> QED BY <2>1 DEF VersionsTyped
<1>10. ASSUME NEW r \in Creates \cup Edits, StoreSaves(r) PROVE VersionsTyped'
  BY <1>8, <1>10 DEF StoreSaves, VersionsTyped
<1>11. ASSUME NEW r \in Edits, Rollback(r) \/ StoreRestores(r) PROVE VersionsTyped'
  <2>1. model[r] \in Versions
    BY DEF VersionsTyped, Requests
  <2> QED BY <1>11, <2>1 DEF Rollback, StoreRestores, VersionsTyped
<1>12. ASSUME NEW r \in Removes, StoreDeletes(r) \/ DeleteSync(r) PROVE VersionsTyped'
  BY <1>12, VersionFacts DEF StoreDeletes, DeleteSync, VersionsTyped
<1>13. CASE Crash
  BY <1>13, VersionFacts DEF Crash, VersionsTyped
<1>14. CASE UNCHANGED vars
  BY <1>14 DEF vars, reqVars, VersionsTyped
<1>15. Creates \cup Edits \cup Removes \subseteq Requests
  BY DEF Requests
<1> QED BY <1>2, <1>4, <1>5, <1>6, <1>7, <1>9, <1>10, <1>11, <1>12, <1>13, <1>14, <1>15 DEF Next

LEMMA HistoryStep == ObjectsInv /\ HistoryTyped /\ [Next]_vars => HistoryTyped'
<1> SUFFICES ASSUME ObjectsInv, HistoryTyped, [Next]_vars PROVE HistoryTyped'
  OBVIOUS
<1>1. ASSUME NEW r \in Requests, NEW m \in Values, Answer(r, m) PROVE HistoryTyped'
  <2>1. model[r] \in Values /\ {r} # Missing
    BY MissingIsNoSet DEF ObjectsInv, Typed
  <2>2. model[r] = {r} => r \in Creates \cup Edits
    BY <2>1 DEF Values
  <2> QED BY <1>1, <2>2 DEF Answer, HistoryTyped
<1>2. ASSUME UNCHANGED history PROVE HistoryTyped'
  BY <1>2 DEF history, promises, HistoryTyped
<1>3. /\ cache \in Values /\ Missing \in Values
      /\ \A r \in Requests : got[r] \in Values /\ model[r] \in Values
  BY DEF ObjectsInv, Typed, Values
<1>4. ASSUME NEW r \in Requests, NEW m \in Values, AfterFind(r, m) PROVE HistoryTyped'
  BY <1>1, <1>2, <1>3, <1>4 DEF AfterFind, AfterMainFind, AfterWorkFind, Work, Goes
<1>5. ASSUME NEW r \in Requests, Begin(r) PROVE HistoryTyped'
  BY <1>5 DEF Begin, HistoryTyped
<1>6. ASSUME NEW r \in Requests, FindInCache(r) \/ Fill(r) PROVE HistoryTyped'
  BY <1>2, <1>3, <1>4, <1>6 DEF FindInCache, Fill, Goes
<1>7. ASSUME NEW r \in Requests, StoreFindFails(r) PROVE HistoryTyped'
  <2>1. CASE Goes(r, "rollback") \/ Answer(r, Missing)
    BY <1>1, <1>2, <1>3, <2>1 DEF Goes
  <2>2. CASE blind' = (IF r \in Creates /\ store # Missing THEN blind \cup {r} ELSE blind)
             /\ UNCHANGED <<owed, warned, kept, crashes>>
    BY <2>2 DEF HistoryTyped
  <2> QED BY <1>7, <2>1, <2>2 DEF StoreFindFails
<1>8. ASSUME NEW r \in Requests, \/ FindMisses(r) \/ StoreFinds(r) \/ CreateModel(r)
                                 \/ UpdateSync(r) \/ SaveSync(r) \/ Rollback(r)
                                 \/ StoreSaves(r)
      PROVE  HistoryTyped'
  BY <1>2, <1>8 DEF FindMisses, StoreFinds, CreateModel, UpdateSync, SaveSync, Rollback,
                    StoreSaves, Goes
<1>9. ASSUME NEW r \in Requests, StoreRestores(r) \/ StoreSaveFails(r) PROVE HistoryTyped'
  BY <1>9 DEF StoreRestores, StoreSaveFails, promises, HistoryTyped
<1>10. ASSUME NEW r \in Requests, Reply(r) \/ DeleteSync(r) PROVE HistoryTyped'
  BY <1>1, <1>2, <1>3, <1>10 DEF Reply, DeleteSync, Goes
<1>11. ASSUME NEW r \in Removes, StoreDeletes(r) PROVE HistoryTyped'
  BY <1>11 DEF StoreDeletes, promises, HistoryTyped
<1>12. CASE Crash
  BY <1>12 DEF Crash, HistoryTyped
<1>13. CASE UNCHANGED vars
  BY <1>2, <1>13 DEF vars
<1>14. Creates \cup Edits \cup Removes \subseteq Requests
  BY DEF Requests
<1> QED BY <1>5, <1>6, <1>7, <1>8, <1>9, <1>10, <1>11, <1>12, <1>13, <1>14 DEF Next

(* The values of cache, store and requests are of their types: none is a   *)
(* mixture of objects, and none is of changes alone.                       *)
THEOREM ObjectsTyped == Spec => []ObjectsTypeOK
<1>1. Init => VersionsTyped /\ HistoryTyped
  BY VersionFacts DEF Init, VersionsTyped, HistoryTyped
<1>2. ObjectsInv /\ HistoryTyped /\ [Next]_vars => HistoryTyped'
  BY HistoryStep
<1>3. ObjectsInv /\ VersionsTyped /\ HistoryTyped => ObjectsTypeOK
  BY DEF ObjectsInv, Typed, Stages, ObjectsTypeOK, VersionsTyped, HistoryTyped
<1> QED BY <1>1, <1>2, <1>3, VersionsStep, ObjectsHold, PTL DEF Spec

-----------------------------------------------------------------------------
(* Objects: what is deleted stays away.                                    *)

(* After a remove that met no other request nobody has the object, and     *)
(* whoever is looking for it finds nothing.                                *)
FindsNone(r, l, s, g) ==
    r \notin Creates /\ s = "main" /\ l \in {"find", "query", "fill"} /\ (l = "fill" => g = Missing)
Removed ==
    /\ gone => /\ cache = Missing /\ store = Missing
               /\ \A r \in Active : FindsNone(r, pc[r], stage[r], got[r])
    /\ \A r \in Removes \ kept : pc[r] = "delete sync" /\ r \notin met => store = Missing

RemovedInv == ObjectsInv /\ Removed

(* A remove that is about to answer and has met no other request is the    *)
(* one to move.                                                            *)
LEMMA NoOtherDeletes ==
    ASSUME RemovedInv, NEW r \in Requests, pc[r] \in Moving, NEW l, l # "delete sync",
           pc' = [pc EXCEPT ![r] = l], UNCHANGED met, NEW q \in Removes
    PROVE  ~(pc'[q] = "delete sync" /\ q \notin met')
<1> SUFFICES ASSUME pc'[q] = "delete sync", q \notin met PROVE FALSE
  OBVIOUS
<1>1. q \in Requests /\ pc \in [Requests -> Labels]
  BY DEF Requests, RemovedInv, ObjectsInv, Typed
<1>2. q # r /\ pc[q] = "delete sync"
  BY <1>1
<1>3. pc[q] \in Moving
  BY <1>2 DEF Moving, Labels
<1>4. q \in Active /\ r \in Active
  BY <1>1, <1>3, RequestFacts DEF RemovedInv
<1> QED BY <1>2, <1>4 DEF RemovedInv, ObjectsInv, Alone

(* Who moves while the object is gone.                                     *)
LEMMA OnlyLookups ==
    ASSUME RemovedInv, gone, NEW r \in Requests, pc[r] \in Moving
    PROVE  cache = Missing /\ store = Missing /\ FindsNone(r, pc[r], stage[r], got[r])
BY RequestFacts DEF RemovedInv, Removed

(* A step that leaves the object gone, or there.                           *)
LEMMA GoneStep ==
    ASSUME RemovedInv, NEW r \in Requests, pc[r] \in Moving, NEW l \in Labels,
           pc' = [pc EXCEPT ![r] = l], l # "delete sync", UNCHANGED met, Typed',
           gone' = gone,
           gone => /\ cache' = Missing /\ store' = Missing
                   /\ \A q \in Requests : q # r => stage'[q] = stage[q] /\ got'[q] = got[q]
                   /\ l \in Moving => FindsNone(r, l, stage'[r], got'[r])
    PROVE  Removed'
<1>1. ASSUME NEW q \in Removes PROVE pc'[q] = "delete sync" /\ q \notin met' => store' = Missing
  BY NoOtherDeletes
<1>2. ASSUME gone', NEW q \in Active' PROVE FindsNone(q, pc[q], stage[q], got[q])'
  <2>1. \A p : p \in Active' <=> p \in Requests /\ pc'[p] \in Moving
    BY DEF Typed, Active, Ended, Waiting, Moving
  <2>2. pc \in [Requests -> Labels] /\ \A p : p \in Active <=> p \in Requests /\ pc[p] \in Moving
    BY ActiveFacts DEF RemovedInv, ObjectsInv, Typed
  <2>3. CASE q = r
    BY <1>2, <2>1, <2>2, <2>3 DEF FindsNone
  <2>4. CASE q # r
    <3>1. /\ q \in Active /\ q \in Requests
          /\ pc'[q] = pc[q] /\ stage'[q] = stage[q] /\ got'[q] = got[q]
      BY <1>2, <2>1, <2>2, <2>4
    <3>2. FindsNone(q, pc[q], stage[q], got[q])
      BY <1>2, <3>1 DEF RemovedInv, Removed
    <3> QED BY <3>1, <3>2 DEF FindsNone
  <2> QED BY <2>3, <2>4
<1>3. gone' => cache' = Missing /\ store' = Missing
  OBVIOUS
<1> QED BY <1>1, <1>2, <1>3 DEF Removed

(* A lookup does not acknowledge a remove.                                 *)
LEMMA LookupKeepsGone ==
    ASSUME ObjectsInv, NEW r \in Requests, pc[r] \in {"find", "query", "fill"}, NEW m,
           AfterFind(r, m)
    PROVE  /\ UNCHANGED <<gone, met>>
           /\ \E l \in Labels : /\ pc' = [pc EXCEPT ![r] = l] /\ l # "delete sync"
                                /\ r \notin Creates /\ stage[r] = "main" /\ m = Missing =>
                                      l \notin Moving
<1>1. ControlOf(r, pc[r], stage[r], model[r], got[r]) /\ gone \in BOOLEAN
  BY DEF ObjectsInv, Control, Typed
<1>2. ASSUME Answer(r, m), r \in Removes => m = Missing
      PROVE  /\ UNCHANGED <<gone, met>>
             /\ \E l \in Labels : /\ pc' = [pc EXCEPT ![r] = l] /\ l # "delete sync"
                                  /\ l \notin Moving
  <2>1. PICK l \in {"done", "failed"} : pc' = [pc EXCEPT ![r] = l]
    BY <1>2 DEF Answer, GoTo
  <2>2. l \in Labels /\ l # "delete sync" /\ l \notin Moving
    BY DEF Labels, Moving
  <2>3. gone' = (gone \/ (m # Missing /\ r \notin met /\ r \in Removes \ kept)) /\ UNCHANGED met
    BY <1>2 DEF Answer
  <2> QED BY <1>1, <1>2, <2>1, <2>2, <2>3
<1>3. ASSUME NEW l \in {"create", "find", "update", "delete"}, Goes(r, l),
             ~(r \notin Creates /\ stage[r] = "main" /\ m = Missing)
      PROVE  /\ UNCHANGED <<gone, met>>
             /\ \E k \in Labels : /\ pc' = [pc EXCEPT ![r] = k] /\ k # "delete sync"
                                  /\ r \notin Creates /\ stage[r] = "main" /\ m = Missing =>
                                        k \notin Moving
  BY <1>3 DEF Goes, GoTo, history, promises, Labels
<1>4. r \in Removes => r \notin Creates /\ r \notin Edits /\ r \notin Finds
  BY ObjectsAssumption
<1>5. CASE stage[r] = "main" /\ AfterMainFind(r, m)
  <2>1. CASE Answer(r, m) /\ ((r \in Creates) = (m # Missing) \/ r \in Finds)
    <3>1. r \in Removes => m = Missing
      BY <1>4, <2>1
    <3> QED BY <1>2, <2>1, <3>1
  <2>2. CASE Work(r) /\ (r \in Creates) = (m = Missing)
    <3>1. ~(r \notin Creates /\ stage[r] = "main" /\ m = Missing)
      BY <2>2
    <3> QED BY <1>3, <2>2, <3>1 DEF Work
  <2> QED BY <1>5, <2>1, <2>2 DEF AfterMainFind
<1>6. CASE stage[r] = "work" /\ AfterWorkFind(r, m)
  <2>1. CASE m = Missing
    BY <1>2, <1>6, <2>1 DEF AfterWorkFind
  <2>2. CASE m # Missing
    BY <1>3, <1>6, <2>2 DEF AfterWorkFind
  <2> QED BY <2>1, <2>2
<1>7. CASE stage[r] = "reply" /\ Answer(r, m)
  <2>1. r \notin Removes
    BY <1>1, <1>4, <1>7 DEF ControlOf
  <2> QED BY <1>2, <1>7, <2>1
<1> QED BY <1>5, <1>6, <1>7 DEF AfterFind

LEMMA LookupsRemoved ==
    ASSUME RemovedInv, NEW r \in Requests, Typed',
           FindInCache(r) \/ FindMisses(r) \/ StoreFinds(r) \/ StoreFindFails(r) \/ Fill(r)
    PROVE  Removed'
<1>1. pc[r] \in {"find", "query", "fill"}
  BY DEF FindInCache, FindMisses, StoreFinds, StoreFindFails, Fill
<1>2. pc[r] \in Moving /\ "query" \in Labels /\ "fill" \in Labels
  BY <1>1 DEF Moving, Labels
<1>3. gone => cache = Missing /\ store = Missing /\ FindsNone(r, pc[r], stage[r], got[r])
  BY <1>2, OnlyLookups
<1>4. /\ ObjectsInv /\ Typed /\ ControlOf(r, pc[r], stage[r], model[r], got[r])
      /\ gone \in BOOLEAN
  BY DEF RemovedInv, ObjectsInv, Control, Typed
<1>5. CASE FindInCache(r)
  <2>1. /\ pc[r] = "find" /\ AfterFind(r, cache) /\ cache # Missing
        /\ UNCHANGED <<cache, store, got>>
    BY <1>5 DEF FindInCache
  <2>2. ~gone
    BY <1>3, <2>1
  <2>3. PICK l \in Labels : pc' = [pc EXCEPT ![r] = l] /\ l # "delete sync"
    BY <1>1, <1>4, <2>1, LookupKeepsGone
  <2>4. UNCHANGED <<gone, met>>
    BY <1>1, <1>4, <2>1, LookupKeepsGone
  <2> QED BY <1>2, <2>2, <2>3, <2>4, GoneStep
<1>6. CASE FindMisses(r)
  <2>1. /\ pc[r] = "find" /\ pc' = [pc EXCEPT ![r] = "query"]
        /\ UNCHANGED <<cache, store, stage, got, gone, met>>
    BY <1>6 DEF FindMisses, GoTo, history, promises
  <2>2. gone => FindsNone(r, "query", stage'[r], got'[r])
    BY <1>3, <2>1 DEF FindsNone
  <2>3. "query" # "delete sync"
    OBVIOUS
  <2> QED BY <1>2, <1>3, <2>1, <2>2, <2>3, GoneStep
<1>7. CASE StoreFinds(r)
  <2>1. /\ pc[r] = "query" /\ pc' = [pc EXCEPT ![r] = "fill"]
        /\ got' = [got EXCEPT ![r] = store] /\ UNCHANGED <<cache, store, stage, gone, met>>
    BY <1>7 DEF StoreFinds, GoTo, history, promises
  <2>2. got'[r] = store /\ \A q \in Requests : q # r => got'[q] = got[q]
    BY <1>4, <2>1 DEF Typed
  <2>3. gone => FindsNone(r, "fill", stage'[r], got'[r])
    BY <1>3, <2>1, <2>2 DEF FindsNone
  <2>4. "fill" # "delete sync"
    OBVIOUS
  <2> QED BY <1>2, <1>3, <2>1, <2>2, <2>3, <2>4, GoneStep
<1>8. CASE StoreFindFails(r)
  <2>1. pc[r] = "query" /\ UNCHANGED <<cache, store, stage, model, got>>
    BY <1>8 DEF StoreFindFails
  <2>2. got[r] = Missing
    BY <1>4, <2>1 DEF ControlOf
  <2>3. CASE stage[r] = "reply" /\ Goes(r, "rollback")
    <3>1. pc' = [pc EXCEPT ![r] = "rollback"] /\ UNCHANGED <<gone, met>> /\ "rollback" \in Labels
      BY <2>3 DEF Goes, GoTo, history, promises, Labels
    <3>2. ~gone
      BY <1>3, <2>3 DEF FindsNone
    <3>3. "rollback" # "delete sync"
      OBVIOUS
    <3> QED BY <1>2, <3>1, <3>2, <3>3, GoneStep
  <2>4. CASE Answer(r, Missing)
    <3>1. /\ pc' = [pc EXCEPT ![r] = "failed"] /\ gone' = (gone \/ FALSE) /\ UNCHANGED met
      BY <2>4 DEF Answer, GoTo
    <3>2. "failed" \in Labels /\ "failed" \notin Moving /\ "failed" # "delete sync" /\ gone' = gone
      BY <1>4, <3>1 DEF Labels, Moving
    <3> QED BY <1>2, <1>3, <2>1, <3>1, <3>2, GoneStep
  <2>5. CASE GoTo(r, "fill") /\ UNCHANGED <<met, gone>>
    <3>1. pc' = [pc EXCEPT ![r] = "fill"] /\ "fill" # "delete sync"
      BY <2>5 DEF GoTo
    <3>2. gone => FindsNone(r, "fill", stage'[r], got'[r])
      BY <1>3, <2>1, <2>2 DEF FindsNone
    <3> QED BY <1>2, <1>3, <2>1, <2>5, <3>1, <3>2, GoneStep
  <2> QED BY <1>8, <2>3, <2>4, <2>5 DEF StoreFindFails
<1>9. CASE Fill(r)
  <2>1. /\ pc[r] = "fill" /\ cache' = (IF got[r] = Missing THEN cache ELSE got[r])
        /\ got' = [got EXCEPT ![r] = Missing] /\ UNCHANGED store
    BY <1>9 DEF Fill
  <2>2. \A q \in Requests : q # r => got'[q] = got[q]
    BY <1>4, <2>1 DEF Typed
  <2>3. gone => got[r] = Missing /\ r \notin Creates /\ stage[r] = "main"
    BY <1>3, <2>1 DEF FindsNone
  <2>4. gone => \A q \in Requests : q # r => stage'[q] = stage[q]
    <3>1. CASE r \in Loads
      BY <1>9, <3>1 DEF Fill
    <3>2. CASE r \notin Loads
      <4>1. gone => AfterFind(r, Missing) /\ r \notin Creates /\ stage[r] = "main"
        BY <1>9, <2>3, <3>2 DEF Fill
      <4> QED BY <4>1 DEF AfterFind, AfterMainFind
    <3> QED BY <3>1, <3>2
  <2>5. CASE r \in Loads
    <3>1. pc' = [pc EXCEPT ![r] = "done"] /\ UNCHANGED <<gone, met, stage>>
      BY <1>9, <2>5 DEF Fill, Goes, GoTo, history, promises
    <3>2. "done" \in Labels /\ "done" \notin Moving /\ "done" # "delete sync"
      BY DEF Labels, Moving
    <3> QED BY <1>2, <1>3, <2>1, <2>2, <2>3, <3>1, <3>2, GoneStep
  <2>6. CASE r \notin Loads
    <3>1. AfterFind(r, got[r])
      BY <1>9, <2>6 DEF Fill
    <3>2. PICK l \in Labels : /\ pc' = [pc EXCEPT ![r] = l] /\ l # "delete sync"
                              /\ r \notin Creates /\ stage[r] = "main" /\ got[r] = Missing =>
                                    l \notin Moving
      BY <1>1, <1>4, <3>1, LookupKeepsGone
    <3>3. UNCHANGED <<gone, met>>
      BY <1>1, <1>4, <3>1, LookupKeepsGone
    <3>4. gone => l \notin Moving
      BY <2>3, <3>2
    <3> QED BY <1>2, <1>3, <2>1, <2>2, <2>3, <2>4, <3>2, <3>3, <3>4, GoneStep
  <2> QED BY <2>5, <2>6
<1> QED BY <1>5, <1>6, <1>7, <1>8, <1>9

LEMMA WritersRemoved ==
    ASSUME RemovedInv, NEW r \in Requests, Typed',
           \/ CreateModel(r) \/ UpdateSync(r) \/ SaveSync(r) \/ Rollback(r) \/ StoreRestores(r)
           \/ StoreSaves(r) \/ StoreSaveFails(r) \/ Reply(r)
    PROVE  Removed'
<1>1. PICK l \in {"save", "save sync", "restore", "failed", "saved", "find", "done"} :
          pc' = [pc EXCEPT ![r] = l]
  BY DEF CreateModel, UpdateSync, SaveSync, Rollback, StoreRestores, StoreSaves, StoreSaveFails,
         Reply, Answer, Goes, GoTo
<1>2. pc[r] \in {"create", "update", "save sync", "rollback", "restore", "save", "saved"}
  BY DEF CreateModel, UpdateSync, SaveSync, Rollback, StoreRestores, StoreSaves, StoreSaveFails,
         Reply
<1>3. /\ pc[r] \in Moving /\ pc[r] \notin {"find", "query", "fill"}
      /\ l \in Labels /\ l # "delete sync"
  BY <1>2 DEF Moving, Labels
<1>4. ~gone
  BY <1>3, OnlyLookups DEF FindsNone
<1>5. gone \in BOOLEAN /\ (r \in Creates => r \notin Removes)
  BY ObjectsAssumption DEF RemovedInv, ObjectsInv, Typed
<1>6. UNCHANGED <<gone, met>>
  <2>1. CASE Reply(r) /\ r \in Creates
    <3>1. Answer(r, cache)
      BY <2>1 DEF Reply
    <3>2. gone' = (gone \/ (cache # Missing /\ r \notin met /\ r \in Removes \ kept)) /\ UNCHANGED met
      BY <3>1 DEF Answer
    <3> QED BY <1>5, <2>1, <3>2
  <2>2. CASE Reply(r) /\ r \notin Creates
    BY <2>2 DEF Reply, Goes, history, promises
  <2>3. CASE \/ CreateModel(r) \/ UpdateSync(r) \/ SaveSync(r) \/ Rollback(r) \/ StoreRestores(r)
             \/ StoreSaves(r) \/ StoreSaveFails(r)
    BY <2>3 DEF CreateModel, UpdateSync, SaveSync, Rollback, StoreRestores, StoreSaves,
                StoreSaveFails, Goes, history, promises
  <2> QED BY <2>1, <2>2, <2>3
<1> QED BY <1>1, <1>3, <1>4, <1>6, GoneStep

LEMMA RemovesRemoved ==
    ASSUME RemovedInv, NEW r \in Requests, Typed',
           StoreDeletes(r) \/ DeleteSync(r)
    PROVE  Removed'
<1>1. pc[r] \in {"delete", "delete sync"}
  BY DEF StoreDeletes, DeleteSync
<1>2. pc[r] \in Moving /\ pc[r] \notin {"find", "query", "fill"}
  BY <1>1 DEF Moving, Labels
<1>3. ~gone
  BY <1>2, OnlyLookups DEF FindsNone
<1>4. /\ ControlOf(r, pc[r], stage[r], model[r], got[r]) /\ pc \in [Requests -> Labels]
      /\ r \in Active /\ (r \notin met => Active = {r})
  BY <1>2, RequestFacts DEF RemovedInv, ObjectsInv, Typed
<1>5. CASE StoreDeletes(r)
  <2>1. /\ pc[r] = "delete" /\ pc' = [pc EXCEPT ![r] = "delete sync"]
        /\ UNCHANGED <<gone, met>>
        /\ (store' = Missing /\ kept' = kept) \/ kept' = kept \cup {r}
    BY <1>5 DEF StoreDeletes, GoTo, promises
  <2>2. ASSUME NEW q \in Removes \ kept', pc'[q] = "delete sync", q \notin met', q # r
        PROVE  FALSE
    <3>1. q \in Requests /\ pc[q] = "delete sync" /\ q \notin met
      BY <1>4, <2>1, <2>2 DEF Requests
    <3>2. pc[q] \in Moving
      BY <3>1 DEF Moving, Labels
    <3>3. q \in Active /\ (q \notin met => Active = {q})
      BY <3>1, <3>2, RequestFacts DEF RemovedInv
    <3> QED BY <1>4, <2>2, <3>1, <3>3
  <2> QED BY <1>3, <2>1, <2>2 DEF Removed
<1>6. CASE DeleteSync(r)
  <2> PICK l \in {"done", "failed"} : l = IF model[r] # Missing THEN "done" ELSE "failed"
    OBVIOUS
  <2>1. /\ pc[r] = "delete sync" /\ pc' = [pc EXCEPT ![r] = l] /\ cache' = Missing
        /\ UNCHANGED <<met, store, kept>>
        /\ gone' = (gone \/ (model[r] # Missing /\ r \notin met /\ r \in Removes \ kept))
    BY <1>6 DEF DeleteSync, Answer, GoTo
  <2>2. l # "delete sync" /\ l \notin Moving
    BY DEF Moving
  <2>3. \A q \in Removes \ kept' : pc'[q] = "delete sync" /\ q \notin met' => store' = Missing
    BY <1>2, <2>1, <2>2, NoOtherDeletes
  <2>4. r \in Removes /\ (r \notin met \cup kept => store = Missing)
    BY <1>4, <2>1 DEF ControlOf, RemovedInv, Removed
  <2>5. gone' => Active' = {}
    <3>1. \A q : q \in Active' <=> q \in Requests /\ pc'[q] \in Moving
      BY DEF Typed, Active, Ended, Waiting, Moving
    <3>2. pc'[r] = l /\ \A q \in Requests : q # r => pc'[q] = pc[q]
      BY <1>4, <2>1
    <3>3. \A q : q \in Active <=> q \in Requests /\ pc[q] \in Moving
      BY ActiveFacts DEF RemovedInv, ObjectsInv
    <3>4. gone' => Active = {r}
      BY <1>3, <1>4, <2>1
    <3> QED BY <2>2, <3>1, <3>2, <3>3, <3>4
  <2>6. gone' => cache' = Missing /\ store' = Missing
    BY <1>3, <2>1, <2>4
  <2> QED BY <2>3, <2>5, <2>6 DEF Removed
<1> QED BY <1>5, <1>6

LEMMA BeginRemoved ==
    ASSUME RemovedInv, NEW r \in Requests, Typed', Begin(r)
    PROVE  Removed'
<1>1. /\ pc[r] = "new" /\ pc' = [pc EXCEPT ![r] = IF r \in Loads THEN "query" ELSE "find"]
      /\ met' = (IF Active = {} THEN met ELSE met \cup Active \cup {r})
      /\ UNCHANGED <<cache, store, stage, model, got, kept>>
      /\ (gone' = gone /\ r \notin Creates) \/ gone' = FALSE
  BY ObjectsAssumption DEF Begin, GoTo
<1>2. /\ pc \in [Requests -> Labels] /\ Removes \subseteq Requests
      /\ ControlOf(r, pc[r], stage[r], model[r], got[r])
      /\ \A q : q \in Active <=> q \in Requests /\ pc[q] \in Moving
  BY ActiveFacts DEF RemovedInv, ObjectsInv, Typed, Control, Requests
<1>3. \A q : q \in Active' <=> q \in Requests /\ pc'[q] \in Moving
  BY DEF Typed, Active, Ended, Waiting, Moving
<1>4. ASSUME NEW q \in Removes \ kept', pc'[q] = "delete sync", q \notin met' PROVE store' = Missing
  <2>1. q # r /\ pc[q] = "delete sync" /\ "delete sync" \in Moving
    BY <1>1, <1>2, <1>4 DEF Moving, Labels
  <2> QED BY <1>1, <1>2, <1>4, <2>1
<1>5. ASSUME gone', NEW q \in Active' PROVE FindsNone(q, pc[q], stage[q], got[q])'
  <2>1. gone /\ r \notin Creates /\ q \in Requests
    BY <1>1, <1>3, <1>5
  <2>2. CASE q = r
    <3>1. stage[r] = "main" /\ pc'[r] \in {"query", "find"}
      BY <1>1, <1>2 DEF ControlOf
    <3> QED BY <1>1, <2>1, <2>2, <3>1 DEF FindsNone
  <2>3. CASE q # r
    <3>1. q \in Active /\ pc'[q] = pc[q]
      BY <1>1, <1>2, <1>3, <1>5, <2>3
    <3>2. FindsNone(q, pc[q], stage[q], got[q])
      BY <2>1, <3>1 DEF RemovedInv, Removed
    <3> QED BY <1>1, <3>1, <3>2 DEF FindsNone
  <2> QED BY <2>2, <2>3
<1>6. gone' => cache' = Missing /\ store' = Missing
  BY <1>1 DEF RemovedInv, Removed
<1> QED BY <1>4, <1>5, <1>6 DEF Removed

LEMMA CrashRemoved ==
    ASSUME RemovedInv, Typed', Crash PROVE Removed'
<1>1. /\ cache' = Missing /\ pc' = [r \in Requests |-> IF r \in Active THEN "lost" ELSE pc[r]]
      /\ UNCHANGED <<store, met, gone>>
  BY DEF Crash
<1>2. /\ Removes \subseteq Requests
      /\ \A q : q \in Active <=> q \in Requests /\ pc[q] \in Moving
  BY ActiveFacts DEF RemovedInv, ObjectsInv, Requests
<1>3. \A q \in Requests : pc'[q] \notin Moving
  BY <1>1, <1>2 DEF Moving
<1>4. Active' = {} /\ "delete sync" \in Moving
  BY <1>3 DEF Typed, Active, Ended, Waiting, Moving, Labels
<1>5. gone' => cache' = Missing /\ store' = Missing
  BY <1>1 DEF RemovedInv, Removed
<1>6. \A q \in Removes : pc'[q] # "delete sync"
  BY <1>2, <1>3, <1>4
<1> QED BY <1>4, <1>5, <1>6 DEF Removed

LEMMA RemovedStep == RemovedInv /\ [Next]_vars => RemovedInv'
<1> SUFFICES ASSUME RemovedInv, [Next]_vars PROVE RemovedInv'
  OBVIOUS
<1>1. ObjectsInv' /\ Typed'
  BY ObjectsStep DEF RemovedInv, ObjectsInv
<1>2. ASSUME NEW r \in Requests, Begin(r) \/ FindInCache(r) \/ FindMisses(r) PROVE Removed'
  BY <1>1, <1>2, BeginRemoved, LookupsRemoved
<1>3. ASSUME NEW r \in Requests, StoreFinds(r) \/ StoreFindFails(r) \/ Fill(r) PROVE Removed'
  BY <1>1, <1>3, LookupsRemoved
<1>4. ASSUME NEW r \in Requests,
             \/ CreateModel(r) \/ UpdateSync(r) \/ SaveSync(r) \/ Rollback(r) \/ StoreRestores(r)
             \/ StoreSaves(r) \/ StoreSaveFails(r) \/ Reply(r)
      PROVE  Removed'
  BY <1>1, <1>4, WritersRemoved
<1>5. ASSUME NEW r \in Requests, StoreDeletes(r) \/ DeleteSync(r) PROVE Removed'
  BY <1>1, <1>5, RemovesRemoved
<1>6. ASSUME Crash PROVE Removed'
  BY <1>1, <1>6, CrashRemoved
<1>7. ASSUME UNCHANGED vars PROVE Removed'
  <2>1. UNCHANGED <<cache, store, stage, pc, got, met, gone, kept>>
    BY <1>7 DEF vars, reqVars, history, promises
  <2>2. UNCHANGED Active
    BY <2>1 DEF Active, Ended, Waiting
  <2> QED BY <2>1, <2>2 DEF RemovedInv, Removed, FindsNone
<1>8. Creates \cup Edits \cup Removes \subseteq Requests
  BY DEF Requests
<1>9. Removed'
  BY <1>2, <1>3, <1>4, <1>5, <1>6, <1>7, <1>8 DEF Next
<1> QED BY <1>1, <1>9 DEF RemovedInv

(* What a remove has deleted does not come back but by a create, or by a   *)
(* request that met the remove; and it has, where the deletion did not     *)
(* fail (remove-model.js, datasource-factory.js delete,                    *)
(* datasource-mongodb.js delete).                                          *)
THEOREM RemovedStaysGone == Spec => []RemovedForGood
<1>1. Init => RemovedInv
  BY ObjectsInit DEF Init, RemovedInv, Removed
<1>2. RemovedInv => RemovedForGood
  BY DEF RemovedInv, Removed, RemovedForGood, Current
<1> QED BY <1>1, <1>2, RemovedStep, PTL DEF Spec

-----------------------------------------------------------------------------
(* ModelObject                                                             *)

JSON == [keyMap -> Origins \cup {None}]
ModelValues == [symbols : JSON, strings : JSON]

(* What was created has its core properties, and they are in all that is   *)
(* made of it, functions excepted.                                         *)
Agrees(json) ==
    /\ \A k \in Fixed : json[k] = born[k]
    /\ json["updateTime"] \in {born["updateTime"], "clock"}
CoreInv ==
    /\ held \in [Holders -> ModelValues]
    /\ cached \in JSON /\ stored \in JSON /\ born \in JSON
    /\ born # nothing => \A k \in Fixed : born[k] # None
    /\ \A h \in Instances : born # nothing /\ Agrees(held[h].symbols)
    /\ cached # nothing => born # nothing /\ Agrees(cached)
    /\ stored # nothing => born # nothing /\ Agrees(stored)
    /\ cached["validate"] = None /\ stored["validate"] = None

LEMMA OverrideFacts ==
    ASSUME NEW base \in JSON, NEW over \in JSON
    PROVE  /\ override(base, over) \in JSON
           /\ \A k \in keyMap :
                 override(base, over)[k] = IF over[k] # None THEN over[k] ELSE base[k]
BY DEF override, JSON

LEMMA PropertiesFacts ==
    ASSUME NEW keys, NEW origin \in Origins
    PROVE  /\ properties(keys, origin) \in JSON
           /\ \A k \in keyMap : properties(keys, origin)[k] = IF k \in keys THEN origin ELSE None
BY DEF properties, JSON

LEMMA NothingIsJSON == nothing \in JSON /\ NoInstance \in ModelValues /\ ~isInstance(NoInstance)
BY DEF nothing, NoInstance, JSON, ModelValues, isInstance

LEMMA MakeFacts ==
    ASSUME NEW json \in JSON, NEW origin \in Origins
    PROVE  /\ make(json, origin) \in ModelValues
           /\ make(json, origin).strings = json
           /\ \A k \in keyMap : make(json, origin).symbols[k] =
                 IF k \in {"createTime", "updateTime"} THEN None ELSE origin
<1> DEFINE p == properties(keyMap \ {"createTime", "updateTime"}, origin)
<1>1. /\ p \in JSON
      /\ \A k \in keyMap : p[k] = IF k \in {"createTime", "updateTime"} THEN None ELSE origin
  BY PropertiesFacts
<1>2. make(json, origin) = [symbols |-> p, strings |-> json]
  BY DEF make
<1> HIDE DEF p
<1> QED BY <1>1, <1>2 DEF ModelValues

LEMMA ToSymbolFacts ==
    ASSUME NEW m \in ModelValues
    PROVE  /\ toSymbol(m) \in ModelValues
           /\ \A k \in keyMap : toSymbol(m).symbols[k] =
                 IF m.strings[k] # None THEN m.strings[k] ELSE m.symbols[k]
<1> DEFINE o == override(m.symbols, m.strings)
<1>1. /\ o \in JSON
      /\ \A k \in keyMap : o[k] = IF m.strings[k] # None THEN m.strings[k] ELSE m.symbols[k]
  BY OverrideFacts DEF ModelValues
<1>2. toSymbol(m) = [m EXCEPT !.symbols = o]
  BY DEF toSymbol
<1> HIDE DEF o
<1> QED BY <1>1, <1>2 DEF ModelValues

LEMMA TimestampFacts ==
    ASSUME NEW m \in ModelValues, NEW key \in keyMap, NEW origin \in Origins
    PROVE  /\ withTimestamp(m, key, origin) \in ModelValues
           /\ withTimestamp(m, key, origin).strings = m.strings
           /\ \A k \in keyMap : withTimestamp(m, key, origin).symbols[k] =
                 IF k = key THEN origin ELSE m.symbols[k]
<1> DEFINE s == [m.symbols EXCEPT ![key] = origin]
<1>1. s \in JSON /\ \A k \in keyMap : s[k] = IF k = key THEN origin ELSE m.symbols[k]
  BY DEF ModelValues, JSON
<1>2. withTimestamp(m, key, origin) = [m EXCEPT !.symbols = s]
  BY DEF withTimestamp, ModelValues
<1> HIDE DEF s
<1> QED BY <1>1, <1>2 DEF ModelValues

LEMMA FromSymbolFacts ==
    ASSUME NEW m \in ModelValues
    PROVE  /\ fromSymbol(m) \in JSON /\ fromSymbol(m)["validate"] = None
           /\ \A k \in keyMap \ {"validate"} : fromSymbol(m)[k] = m.symbols[k]
BY DEF fromSymbol, ModelValues, JSON, functions, keyMap

(* A new object has all its core properties.                               *)
LEMMA MakeModelFacts ==
    ASSUME NEW payload \in SUBSET keyMap
    PROVE  /\ makeModel(payload) \in ModelValues
           /\ \A k \in Fixed : makeModel(payload).symbols[k] # None
<1> DEFINE p == properties(payload, "factory")
<1>1. p \in JSON
  BY PropertiesFacts DEF Origins
<1> DEFINE m == make(p, "make")
<1>2. m \in ModelValues /\ \A k \in keyMap : m.symbols[k] =
          IF k \in {"createTime", "updateTime"} THEN None ELSE "make"
  BY <1>1, MakeFacts DEF Origins
<1> DEFINE t == withTimestamp(m, "createTime", "make")
<1>3. t \in ModelValues /\ \A k \in keyMap : t.symbols[k] =
          IF k = "createTime" THEN "make" ELSE m.symbols[k]
  BY <1>2, TimestampFacts DEF Origins, keyMap
<1>4. makeModel(payload) = toSymbol(t)
  BY DEF makeModel
<1>5. Fixed \subseteq keyMap \ {"updateTime"}
  BY DEF Fixed, keyMap
<1> HIDE DEF t, m
<1>6. \A k \in Fixed : t.symbols[k] # None
  BY <1>2, <1>3, <1>5 DEF None
<1>7. /\ toSymbol(t) \in ModelValues
      /\ \A k \in keyMap : toSymbol(t).symbols[k] =
            IF t.strings[k] # None THEN t.strings[k] ELSE t.symbols[k]
  BY <1>3, ToSymbolFacts
<1> QED BY <1>4, <1>5, <1>6, <1>7

(* What an object was written with it is loaded with.                      *)
LEMMA LoadModelFacts ==
    ASSUME NEW json \in JSON, json["validate"] = None, \A k \in Fixed : json[k] # None
    PROVE  /\ loadModel(json) \in ModelValues /\ isInstance(loadModel(json))
           /\ \A k \in Fixed \cup {"updateTime"} : loadModel(json).symbols[k] = json[k]
<1> DEFINE m == make(json, "loading")
<1>1. /\ m \in ModelValues /\ m.strings = json
      /\ \A k \in keyMap : m.symbols[k] =
            IF k \in {"createTime", "updateTime"} THEN None ELSE "loading"
  BY MakeFacts DEF Origins
<1> DEFINE t == toSymbol(m)
<1> HIDE DEF m
<1>2. /\ t \in ModelValues
      /\ \A k \in keyMap : t.symbols[k] = IF json[k] # None THEN json[k] ELSE m.symbols[k]
  BY <1>1, ToSymbolFacts
<1>3. loadModel(json) = IF validates(t) THEN t ELSE NoInstance
  BY DEF loadModel, m
<1> HIDE DEF t
<1>4. "validate" \in keyMap /\ "updateTime" \in keyMap /\ Fixed \subseteq keyMap
  BY DEF Fixed, keyMap
<1>5. t.symbols["validate"] = "loading"
  BY <1>1, <1>2, <1>4
<1>6. NoInstance.symbols["validate"] = "none"
  BY <1>4 DEF NoInstance, nothing, None
<1>7. loadModel(json) = t /\ t # NoInstance
  BY <1>3, <1>5, <1>6 DEF validates
<1>8. \A k \in Fixed : t.symbols[k] = json[k]
  BY <1>2, <1>4
<1>9. t.symbols["updateTime"] = json["updateTime"]
  BY <1>1, <1>2, <1>4
<1> QED BY <1>2, <1>7, <1>8, <1>9 DEF isInstance

(* Of the symbols an update sets its time alone.                           *)
LEMMA MergeFacts ==
    ASSUME NEW m \in ModelValues, NEW changes \in SUBSET keyMap
    PROVE  /\ mergeChanges(m, changes) \in ModelValues
           /\ \A k \in Fixed : mergeChanges(m, changes).symbols[k] = m.symbols[k]
           /\ mergeChanges(m, changes).symbols["updateTime"] = "clock"
<1> DEFINE o == override(m.strings, properties(changes, "changes"))
<1>1. o \in JSON
  BY PropertiesFacts, OverrideFacts DEF ModelValues, Origins
<1> DEFINE n == [m EXCEPT !.strings = o]
<1> HIDE DEF o
<1>2. n \in ModelValues /\ n.symbols = m.symbols
  BY <1>1 DEF ModelValues
<1>3. mergeChanges(m, changes) = withTimestamp(n, "updateTime", "clock")
  BY DEF mergeChanges, o, ModelValues
<1> HIDE DEF n
<1>4. Fixed \subseteq keyMap \ {"updateTime"} /\ "updateTime" \in keyMap
  BY DEF Fixed, keyMap
<1>5. "clock" \in Origins
  BY DEF Origins
<1> DEFINE t == withTimestamp(n, "updateTime", "clock")
<1>6. /\ t \in ModelValues
      /\ \A k \in keyMap : t.symbols[k] = IF k = "updateTime" THEN "clock" ELSE n.symbols[k]
  BY <1>2, <1>4, <1>5, TimestampFacts
<1>7. mergeChanges(m, changes) = t
  BY <1>3
<1> HIDE DEF t
<1> QED BY <1>2, <1>4, <1>6, <1>7

(* What is written of an instance agrees with it.                          *)
LEMMA WrittenAgrees ==
    ASSUME NEW m \in ModelValues, Agrees(m.symbols)
    PROVE  Agrees(fromSymbol(m))
<1>1. Fixed \cup {"updateTime"} \subseteq keyMap \ {"validate"}
  BY DEF Fixed, keyMap
<1> QED BY <1>1, FromSymbolFacts DEF Agrees

LEMMA LoadedAgrees ==
    ASSUME CoreInv, NEW json \in JSON, json["validate"] = None, born # nothing, Agrees(json)
    PROVE  /\ loadModel(json) \in ModelValues /\ isInstance(loadModel(json))
           /\ Agrees(loadModel(json).symbols)
<1>1. \A k \in Fixed : json[k] # None
  BY DEF CoreInv, Agrees
<1>2. /\ loadModel(json) \in ModelValues /\ isInstance(loadModel(json))
      /\ \A k \in Fixed \cup {"updateTime"} : loadModel(json).symbols[k] = json[k]
  BY <1>1, LoadModelFacts
<1> QED BY <1>2 DEF Agrees

(* A thread writes a model that agrees with what was created.              *)
LEMMA WriteKeepsCores ==
    ASSUME CoreInv, NEW h \in Holders, NEW m \in ModelValues, Agrees(m.symbols), born # nothing,
           held' = [held EXCEPT ![h] = m], UNCHANGED born,
           cached' = fromSymbol(m), stored' \in {stored, fromSymbol(m)}
    PROVE  CoreInv'
<1>1. fromSymbol(m) \in JSON /\ fromSymbol(m)["validate"] = None /\ Agrees(fromSymbol(m))
  BY FromSymbolFacts, WrittenAgrees
<1>2. /\ held' \in [Holders -> ModelValues]
      /\ \A q \in Holders : held'[q] = IF q = h THEN m ELSE held[q]
  BY DEF CoreInv
<1>3. ASSUME NEW q \in Instances' PROVE Agrees(held'[q].symbols)
  BY <1>2, <1>3 DEF CoreInv, Instances
<1>4. Agrees(cached') /\ (stored' # nothing => Agrees(stored'))
  BY <1>1 DEF CoreInv
<1> QED BY <1>1, <1>2, <1>3, <1>4 DEF CoreInv, Agrees

LEMMA CoreInitially == ModelInit => CoreInv
<1> SUFFICES ASSUME ModelInit PROVE CoreInv
  OBVIOUS
<1>1. \A h \in Holders : held[h] = NoInstance
  BY DEF ModelInit
<1>2. Instances = {}
  BY <1>1, NothingIsJSON DEF Instances
<1>3. nothing["validate"] = None
  BY DEF nothing, keyMap
<1>4. held \in [Holders -> ModelValues]
  BY NothingIsJSON DEF ModelInit
<1> QED BY <1>2, <1>3, <1>4, NothingIsJSON DEF ModelInit, CoreInv

LEMMA CoreStep == CoreInv /\ [ModelNext]_modelVars => CoreInv'
<1> SUFFICES ASSUME CoreInv, [ModelNext]_modelVars PROVE CoreInv'
  OBVIOUS
<1>1. ASSUME NEW h \in Holders, NEW payload \in SUBSET UserKeys, createModel(h, payload)
      PROVE  CoreInv'
  <2> PICK m : m = makeModel(payload)
    OBVIOUS
  <2>1. /\ born = nothing /\ held' = [held EXCEPT ![h] = m] /\ born' = m.symbols
        /\ cached' = fromSymbol(m) /\ stored' \in {stored, fromSymbol(m)}
    BY <1>1 DEF createModel
  <2>2. m \in ModelValues /\ \A k \in Fixed : m.symbols[k] # None
    BY ModelAssumption, MakeModelFacts
  <2>3. Fixed \cup {"updateTime"} \subseteq keyMap \ {"validate"} /\ "id" \in Fixed
    BY DEF Fixed, keyMap
  <2>4. /\ fromSymbol(m) \in JSON /\ fromSymbol(m)["validate"] = None
        /\ \A k \in Fixed \cup {"updateTime"} : fromSymbol(m)[k] = m.symbols[k]
    BY <2>2, <2>3, FromSymbolFacts
  <2>5. Instances = {} /\ stored = nothing
    BY <2>1 DEF CoreInv
  <2>6. /\ held' \in [Holders -> ModelValues]
        /\ \A q \in Holders : held'[q] = IF q = h THEN m ELSE held[q]
    BY <2>1, <2>2 DEF CoreInv
  <2>7. born' \in JSON /\ born' # nothing
    BY <2>1, <2>2, <2>3 DEF ModelValues, nothing
  <2>8. Agrees(m.symbols)' /\ Agrees(fromSymbol(m))'
    BY <2>1, <2>4 DEF Agrees
  <2>9. ASSUME NEW q \in Instances' PROVE Agrees(held[q].symbols)'
    <3>1. held'[q] = m
      BY <2>5, <2>6, <2>9 DEF Instances
    <3> QED BY <2>1, <3>1 DEF Agrees
  <2>10. Agrees(cached)' /\ ((stored # nothing)' => Agrees(stored)')
    <3>1. cached' = fromSymbol(m) /\ (stored' = nothing \/ stored' = fromSymbol(m))
      BY <2>1, <2>5
    <3> QED BY <2>1, <2>4, <3>1 DEF Agrees
  <2>11. /\ cached'["validate"] = None /\ stored'["validate"] = None
         /\ cached' \in JSON /\ stored' \in JSON
    BY <2>1, <2>4 DEF CoreInv
  <2> QED BY <2>1, <2>2, <2>6, <2>7, <2>9, <2>10, <2>11 DEF CoreInv
<1>2. ASSUME NEW h \in Holders, NEW changes \in SUBSET UserKeys, update(h, changes)
      PROVE  CoreInv'
  <2> PICK m : m = mergeChanges(held[h], changes)
    OBVIOUS
  <2>1. /\ h \in Instances /\ held' = [held EXCEPT ![h] = m] /\ UNCHANGED born
        /\ cached' = fromSymbol(m) /\ stored' \in {stored, fromSymbol(m)}
    BY <1>2 DEF update, Instances
  <2>2. /\ m \in ModelValues
        /\ \A k \in Fixed : m.symbols[k] = held[h].symbols[k]
        /\ m.symbols["updateTime"] = "clock"
    BY ModelAssumption, MergeFacts DEF CoreInv
  <2>3. born # nothing /\ Agrees(m.symbols)
    BY <2>1, <2>2 DEF CoreInv, Agrees
  <2> QED BY <2>1, <2>2, <2>3, WriteKeepsCores
<1>3. ASSUME NEW h \in Holders, save(h) PROVE CoreInv'
  <2> PICK m : m = held[h]
    OBVIOUS
  <2>1. /\ h \in Instances /\ held' = [held EXCEPT ![h] = m] /\ UNCHANGED born
        /\ cached' = fromSymbol(m) /\ stored' \in {stored, fromSymbol(m)}
    BY <1>3 DEF save, Instances, CoreInv
  <2>2. m \in ModelValues /\ born # nothing /\ Agrees(m.symbols)
    BY <2>1 DEF CoreInv
  <2> QED BY <2>1, <2>2, WriteKeepsCores
<1>4. ASSUME NEW h \in Holders, NEW json \in {cached, stored}, json # nothing,
             held' \in {held, [held EXCEPT ![h] = loadModel(json)]},
             cached' = json, UNCHANGED <<stored, born>>
      PROVE  CoreInv'
  <2>1. json \in JSON /\ json["validate"] = None /\ born # nothing /\ Agrees(json)
    BY <1>4 DEF CoreInv
  <2> PICK m : m = loadModel(json)
    OBVIOUS
  <2>2. m \in ModelValues /\ Agrees(m.symbols)
    BY <2>1, LoadedAgrees
  <2>3. /\ held' \in [Holders -> ModelValues]
        /\ \A q \in Holders : held'[q] = held[q] \/ held'[q] = m
    BY <1>4, <2>2 DEF CoreInv
  <2>4. ASSUME NEW q \in Instances' PROVE Agrees(held'[q].symbols)
    BY <2>2, <2>3, <2>4 DEF CoreInv, Instances
  <2> QED BY <1>4, <2>1, <2>3, <2>4 DEF CoreInv, Agrees
<1>5. ASSUME NEW h \in Holders, mapGet(h) PROVE CoreInv'
  BY <1>4, <1>5 DEF mapGet
<1>6. ASSUME NEW h \in Holders, find(h) PROVE CoreInv'
  BY <1>4, <1>6 DEF find
<1>7. ASSUME Restart PROVE CoreInv'
  <2>1. /\ held' = [h \in Holders |-> NoInstance] /\ cached' = nothing
        /\ born' = (IF stored = nothing THEN nothing ELSE born) /\ UNCHANGED stored
    BY <1>7 DEF Restart
  <2>2. held' \in [Holders -> ModelValues] /\ Instances' = {}
    BY <2>1, NothingIsJSON DEF Instances
  <2>3. nothing["validate"] = None
    BY DEF nothing, keyMap
  <2>4. stored' # nothing => born' # nothing /\ Agrees(stored)'
    BY <2>1 DEF CoreInv, Agrees
  <2> QED BY <2>1, <2>2, <2>3, <2>4, NothingIsJSON DEF CoreInv
<1>8. ASSUME UNCHANGED modelVars PROVE CoreInv'
  BY <1>8 DEF modelVars, CoreInv, Agrees, Instances
<1> QED BY <1>1, <1>2, <1>3, <1>5, <1>6, <1>7, <1>8 DEF ModelNext

(* Whatever names callers use, no request changes what an object was       *)
(* created with, in an instance, in the cache or in the store, and what is *)
(* cached can be loaded (model.js, mixins.js toSymbol and fromSymbol).     *)
THEOREM CoreStaysProtected == ModelSpec => []CoreProtected
<1>1. CoreInv => CoreProtected
  <2> SUFFICES ASSUME CoreInv PROVE CoreProtected
    OBVIOUS
  <2>1. cached # nothing => isInstance(loadModel(cached))
    <3>1. cached # nothing =>
              /\ cached \in JSON /\ cached["validate"] = None /\ born # nothing
              /\ Agrees(cached)
      BY DEF CoreInv
    <3> QED BY <3>1, LoadedAgrees
  <2> QED BY <2>1 DEF CoreInv, Agrees, CoreProtected
<1> QED BY <1>1, CoreInitially, CoreStep, PTL DEF ModelSpec

-----------------------------------------------------------------------------
(* Wiring                                                                  *)

WiringTyped ==
    /\ modelFactories \in Seq(Models) /\ IsInjective(modelFactories)
    /\ poolOf \in [ThreadIds -> Pools \cup {NoPool}]
    /\ content \in [Maps -> SUBSET Models]
    /\ saved \subseteq Models
    /\ closed \subseteq Pools
    /\ reloading \in [Pools -> {"no", "drain", "start"}]
    /\ disposed \in BOOLEAN

(* Before all models are registered nothing is stored and no pool runs.    *)
NotBefore ==
    ~imported =>
        /\ content = [x \in Maps |-> {}] /\ saved = {} /\ closed = {}

WellWired == \A d \in Pools : WellOrdered(d)

(* In a well ordered host: the main thread's maps have the objects that    *)
(* are saved, and no map has one of another model.                         *)
Shared ==
    imported /\ WellWired =>
        /\ \A m \in Models : m \in content[<<Main, m>>] <=> m \in saved
        /\ \A x \in Maps : content[x] \subseteq {x[2]}
        /\ \A d \in closed \cap Models : disposed \/ reloading[d] # "no"

WiringInv == WiringTyped /\ NotBefore /\ Shared

(* All models are registered when there are as many entries.               *)
LEMMA AllImported ==
    ASSUME WiringTyped, imported
    PROVE  \A m \in Models : \E i \in 1..Len(modelFactories) : modelFactories[i] = m
<1> DEFINE q == modelFactories
           R == {q[i] : i \in 1..Len(q)}
<1>1. Len(q) \in Nat /\ DOMAIN q = 1..Len(q) /\ q \in [1..Len(q) -> Models] /\ IsInjective(q)
  BY LenProperties DEF WiringTyped
<1>2. q \in [1..Len(q) -> R] /\ R \subseteq Models
  BY <1>1
<1>3. q \in Injection(1..Len(q), R) /\ q \in Surjection(1..Len(q), R)
  BY <1>1, <1>2 DEF Injection, Surjection
<1>4. ExistsBijection(1..Len(q), R)
  BY <1>3 DEF ExistsBijection, Bijection
<1>5. Cardinality(R) = Cardinality(Models)
  BY <1>1, <1>4, FS_CountingElements DEF imported
<1>6. IsFiniteSet(Models)
  BY WiringAssumption
<1> HIDE DEF R
<1>7. R = Models
  BY <1>2, <1>5, <1>6, FS_Subset
<1> QED BY <1>7 DEF R

(* The first model of a domain is one of it.                               *)
LEMMA FirstFacts ==
    ASSUME WiringTyped, imported, NEW d \in Pools
    PROVE  first(d) \in Models /\ domainOf[first(d)] = d
<1>1. PICK m \in Models : domainOf[m] = d
  BY DEF Pools
<1>2. \E i \in 1..Len(modelFactories) : domainOf[modelFactories[i]] = d
  BY <1>1, AllImported
<1> DEFINE I == {i \in 1..Len(modelFactories) : domainOf[modelFactories[i]] = d}
<1>3. I # {} /\ I \subseteq Nat
  BY <1>2
<1>4. Min(I) \in I
  BY <1>3, Smallest DEF Min
<1>5. first(d) = modelFactories[Min(I)]
  BY <1>3 DEF first, SelectInSeq
<1>6. Min(I) \in 1..Len(modelFactories) /\ domainOf[modelFactories[Min(I)]] = d
  BY <1>4
<1>7. modelFactories[Min(I)] \in Models
  BY <1>6, ElementOfSeq DEF WiringTyped
<1> QED BY <1>5, <1>6, <1>7

(* The threads of a well ordered domain are given the maps of the main     *)
(* thread for its own models and for those it is related to; no map serves *)
(* two models.                                                             *)
LEMMA MapFacts ==
    ASSUME WiringTyped, imported, WellWired,
           NEW t \in ThreadIds, NEW m \in Models, poolOf[t] # NoPool
    PROVE  /\ poolOf[t] \in Pools
           /\ modelsInDomain(poolOf[t]) \subseteq getThreadPool(poolOf[t]).dsRelated
           /\ mapOf(t, m) = IF m \in getThreadPool(poolOf[t]).dsRelated
                            THEN <<Main, m>> ELSE <<t, m>>
           /\ getThreadPool(poolOf[t]).dsRelated = findLocalRelatedModels(first(poolOf[t]))
<1> DEFINE d == poolOf[t]
<1>1. d \in Pools
  BY DEF WiringTyped
<1>2. first(d) \in Models /\ domainOf[first(d)] = d
  BY <1>1, FirstFacts
<1>3. d \in Models => first(d) = d
  BY <1>1 DEF WellWired, WellOrdered
<1>4. /\ getThreadPool(d).sharedMap = <<Main, first(d)>>
      /\ getThreadPool(d).dsRelated = findLocalRelatedModels(first(d))
  BY DEF getThreadPool, createSharedMap
<1>5. modelsInDomain(d) \subseteq findLocalRelatedModels(first(d))
  BY <1>2 DEF findLocalRelatedModels
<1>6. first(d) \in modelsInDomain(d)
  BY <1>2 DEF modelsInDomain
<1>7. mapOf(t, m) = createDataSource(t, d, m)
  BY WiringAssumption DEF mapOf
<1> HIDE DEF d
<1>8. createDataSource(t, d, m) =
        IF m \in findLocalRelatedModels(first(d)) THEN <<Main, m>> ELSE <<t, m>>
  BY <1>3, <1>4, <1>5, <1>6 DEF createDataSource, createSharedMap
<1> QED BY <1>1, <1>4, <1>5, <1>7, <1>8 DEF d

(* Nothing is stored before the first step.                                *)
LEMMA WiringInitially == WiringInit => WiringInv
<1> SUFFICES ASSUME WiringInit PROVE WiringInv
  OBVIOUS
<1>1. modelFactories = <<>> /\ modelFactories \in Seq(Models) /\ IsInjective(modelFactories)
  BY EmptySeq DEF WiringInit, IsInjective
<1>2. WiringTyped
  BY <1>1 DEF WiringInit, WiringTyped
<1>3. \A m \in Models : <<Main, m>> \in Maps
  BY DEF Maps
<1>4. content = [x \in Maps |-> {}] /\ saved = {} /\ closed = {}
  BY DEF WiringInit
<1>5. Shared
  BY <1>3, <1>4 DEF Shared
<1> QED BY <1>2, <1>4, <1>5 DEF WiringInv, NotBefore

(* Who is first changes with the registered models only.                   *)
LEMMA FirstFrame == ASSUME UNCHANGED modelFactories PROVE \A d : first(d)' = first(d)
BY DEF first, SelectInSeq

(* A step after the imports leaves the models as they are, and so all that *)
(* the wiring says of a thread that runs.                                  *)
LEMMA SharedFrame ==
    ASSUME WiringTyped, imported, Shared, WiringTyped', UNCHANGED modelFactories,
           WellWired =>
              /\ \A m \in Models : m \in content'[<<Main, m>>] <=> m \in saved'
              /\ \A x \in Maps : content'[x] \subseteq {x[2]}
              /\ \A d \in closed' \cap Models : disposed' \/ reloading'[d] # "no"
    PROVE  WiringInv'
<1>1. imported' /\ (WellWired' <=> WellWired)
  BY FirstFrame DEF imported, WellWired, WellOrdered
<1> QED BY <1>1 DEF WiringInv, NotBefore, Shared

(* Threads that stop take their own maps with them.                        *)
LEMMA StopFacts ==
    ASSUME WiringTyped, NEW d \in Pools, stopThreads(d)
    PROVE  /\ poolOf' \in [ThreadIds -> Pools \cup {NoPool}]
           /\ content' \in [Maps -> SUBSET Models]
           /\ \A m \in Models : content'[<<Main, m>>] = content[<<Main, m>>]
           /\ \A x \in Maps : content'[x] \subseteq content[x]
<1>1. \A m \in Models : <<Main, m>> \in Maps /\ <<Main, m>>[1] \notin threads(d)
  BY WiringAssumption DEF Maps, threads
<1> QED BY <1>1 DEF stopThreads, WiringTyped

(* Saves go to the main thread's map, reloads leave it alone.              *)
LEMMA WiringStep == WiringInv /\ [WiringNext]_wiringVars => WiringInv'
<1> SUFFICES ASSUME WiringInv, [WiringNext]_wiringVars PROVE WiringInv'
  OBVIOUS
<1>1. WiringTyped /\ NotBefore /\ Shared
  BY DEF WiringInv
<1>2. ASSUME NEW m \in Models, register(m) PROVE WiringInv'
  <2>1. /\ m \notin Range(modelFactories) /\ modelFactories' = Append(modelFactories, m)
        /\ UNCHANGED <<poolOf, content, saved, closed, reloading, disposed>>
    BY <1>2 DEF register, poolVars
  <2>2. m \notin ToSet(modelFactories)
    BY <2>1 DEF Range, ToSet
  <2>3. modelFactories' \in Seq(Models) /\ IsInjective(modelFactories')
    BY <1>1, <2>1, <2>2, PushFacts DEF WiringTyped
  <2>4. WiringTyped'
    BY <1>1, <2>1, <2>3 DEF WiringTyped
  <2>5. ~imported
    <3>1. ASSUME imported PROVE FALSE
      <4>1. PICK i \in 1..Len(modelFactories) : modelFactories[i] = m
        BY <1>1, <3>1, AllImported
      <4> QED BY <1>1, <2>2, <4>1, LenProperties DEF ToSet, WiringTyped
    <3> QED BY <3>1
  <2>6. content' = [x \in Maps |-> {}] /\ saved' = {} /\ closed' = {}
    BY <1>1, <2>1, <2>5 DEF NotBefore
  <2>7. \A n \in Models : <<Main, n>> \in Maps
    BY DEF Maps
  <2>8. Shared'
    BY <2>6, <2>7 DEF Shared
  <2> QED BY <2>4, <2>6, <2>8 DEF WiringInv, NotBefore
<1>3. ASSUME imported, NEW t \in ThreadIds, NEW d \in Pools, startThread(t, d) PROVE WiringInv'
  <2>1. /\ poolOf' = [poolOf EXCEPT ![t] = d]
        /\ UNCHANGED <<modelFactories, content, saved, closed, reloading, disposed>>
    BY <1>3 DEF startThread, poolVars
  <2>2. WiringTyped'
    BY <1>1, <2>1 DEF WiringTyped
  <2> QED BY <1>1, <1>3, <2>1, <2>2, SharedFrame DEF Shared
<1>4. ASSUME imported, NEW t \in ThreadIds, NEW m \in Models, saveObject(t, m) PROVE WiringInv'
  <2> DEFINE x == mapOf(t, m)
  <2>1. /\ poolOf[t] # NoPool
        /\ m \in modelsInDomain(poolOf[t]) \cup getThreadPool(poolOf[t]).dsRelated
        /\ content' = [content EXCEPT ![x] = @ \cup {m}] /\ saved' = saved \cup {m}
        /\ UNCHANGED <<modelFactories, poolOf, closed, reloading, disposed>>
    BY <1>4 DEF saveObject, poolVars
  <2> HIDE DEF x
  <2>2. WiringTyped'
    BY <1>1, <2>1 DEF WiringTyped
  <2>3. ASSUME WellWired PROVE x = <<Main, m>>
    BY <1>1, <1>4, <2>1, <2>3, MapFacts DEF x
  <2>4. <<Main, m>> \in Maps /\ <<Main, m>>[2] = m /\ \A n \in Models : <<Main, n>> \in Maps
    BY DEF Maps
  <2>5. content \in [Maps -> SUBSET Models]
    BY <1>1 DEF WiringTyped
  <2>6. ASSUME WellWired
        PROVE  /\ \A n \in Models : n \in content'[<<Main, n>>] <=> n \in saved'
               /\ \A y \in Maps : content'[y] \subseteq {y[2]}
               /\ \A d \in closed' \cap Models : disposed' \/ reloading'[d] # "no"
    <3>1. \A y \in Maps : content'[y] = IF y = <<Main, m>> THEN content[y] \cup {m} ELSE content[y]
      BY <2>1, <2>3, <2>5, <2>6
    <3>2. /\ \A n \in Models : n \in content[<<Main, n>>] <=> n \in saved
          /\ \A y \in Maps : content[y] \subseteq {y[2]}
          /\ \A d \in closed \cap Models : disposed \/ reloading[d] # "no"
      BY <1>1, <1>4, <2>6 DEF Shared
    <3>3. ASSUME NEW n \in Models PROVE n \in content'[<<Main, n>>] <=> n \in saved'
      <4>1. <<Main, n>> = <<Main, m>> <=> n = m
        OBVIOUS
      <4>2. content'[<<Main, n>>] =
               IF n = m THEN content[<<Main, n>>] \cup {m} ELSE content[<<Main, n>>]
        BY <2>4, <3>1, <4>1
      <4>3. saved' = saved \cup {m} /\ (n \in content[<<Main, n>>] <=> n \in saved)
        BY <2>1, <3>2
      <4> HIDE DEF WiringInv
      <4> QED BY <4>2, <4>3
    <3>4. \A y \in Maps : content'[y] \subseteq {y[2]}
      BY <2>4, <3>1, <3>2
    <3> QED BY <2>1, <3>2, <3>3, <3>4
  <2> QED BY <1>1, <1>4, <2>1, <2>2, <2>6, SharedFrame
<1>5. ASSUME imported, NEW t \in ThreadIds, NEW m \in Models, deleteObject(t, m) PROVE WiringInv'
  <2> DEFINE x == mapOf(t, m)
  <2>1. /\ poolOf[t] # NoPool /\ m \in modelsInDomain(poolOf[t])
        /\ content' = [content EXCEPT ![x] = @ \ {m}] /\ saved' = saved \ {m}
        /\ UNCHANGED <<modelFactories, poolOf, closed, reloading, disposed>>
    BY <1>5 DEF deleteObject, poolVars
  <2> HIDE DEF x
  <2>2. WiringTyped'
    BY <1>1, <2>1 DEF WiringTyped
  <2>3. ASSUME WellWired PROVE x = <<Main, m>>
    BY <1>1, <1>5, <2>1, <2>3, MapFacts DEF x
  <2>4. <<Main, m>> \in Maps /\ \A n \in Models : <<Main, n>> \in Maps
    BY DEF Maps
  <2>5. content \in [Maps -> SUBSET Models]
    BY <1>1 DEF WiringTyped
  <2>6. ASSUME WellWired
        PROVE  /\ \A n \in Models : n \in content'[<<Main, n>>] <=> n \in saved'
               /\ \A y \in Maps : content'[y] \subseteq {y[2]}
               /\ \A d \in closed' \cap Models : disposed' \/ reloading'[d] # "no"
    <3>1. \A y \in Maps : content'[y] = IF y = <<Main, m>> THEN content[y] \ {m} ELSE content[y]
      BY <2>1, <2>3, <2>5, <2>6
    <3>2. /\ \A n \in Models : n \in content[<<Main, n>>] <=> n \in saved
          /\ \A y \in Maps : content[y] \subseteq {y[2]}
          /\ \A d \in closed \cap Models : disposed \/ reloading[d] # "no"
      BY <1>1, <1>5, <2>6 DEF Shared
    <3>3. ASSUME NEW n \in Models PROVE n \in content'[<<Main, n>>] <=> n \in saved'
      <4>1. <<Main, n>> = <<Main, m>> <=> n = m
        OBVIOUS
      <4>2. content'[<<Main, n>>] =
               IF n = m THEN content[<<Main, n>>] \ {m} ELSE content[<<Main, n>>]
        BY <2>4, <3>1, <4>1
      <4>3. saved' = saved \ {m} /\ (n \in content[<<Main, n>>] <=> n \in saved)
        BY <2>1, <3>2
      <4> HIDE DEF WiringInv
      <4> QED BY <4>2, <4>3
    <3>4. \A y \in Maps : content'[y] \subseteq {y[2]}
      BY <2>4, <3>1, <3>2
    <3> QED BY <2>1, <3>2, <3>3, <3>4
  <2> QED BY <1>1, <1>5, <2>1, <2>2, <2>6, SharedFrame
<1>6. ASSUME imported, NEW d \in Pools, hotReload(d) \/ reloadOpens(d) PROVE WiringInv'
  <2>1. /\ UNCHANGED <<modelFactories, poolOf, content, saved, disposed>>
        /\ \/ closed' = closed \cup {d} /\ reloading' = [reloading EXCEPT ![d] = "drain"]
           \/ closed' = closed \ {d} /\ reloading' = [reloading EXCEPT ![d] = "no"]
    BY <1>6 DEF hotReload, reloadOpens
  <2>2. WiringTyped'
    BY <1>1, <2>1 DEF WiringTyped
  <2>3. reloading \in [Pools -> {"no", "drain", "start"}] /\ closed \subseteq Pools
    BY <1>1 DEF WiringTyped
  <2> QED BY <1>1, <1>6, <2>1, <2>2, <2>3, SharedFrame DEF Shared
<1>7. ASSUME imported, NEW d \in Pools, reloadStops(d) \/ destroyStops(d) PROVE WiringInv'
  <2>1. /\ stopThreads(d) /\ UNCHANGED <<modelFactories, saved, closed, disposed>>
        /\ reloading' = reloading \/ reloading' = [reloading EXCEPT ![d] = "start"]
    BY <1>7 DEF reloadStops, destroyStops
  <2>2. /\ poolOf' \in [ThreadIds -> Pools \cup {NoPool}]
        /\ content' \in [Maps -> SUBSET Models]
        /\ \A m \in Models : content'[<<Main, m>>] = content[<<Main, m>>]
        /\ \A x \in Maps : content'[x] \subseteq content[x]
    BY <1>1, <2>1, StopFacts
  <2>3. WiringTyped'
    BY <1>1, <2>1, <2>2 DEF WiringTyped
  <2>4. \A e \in Pools : reloading[e] # "no" => reloading'[e] # "no"
    BY <1>1, <2>1 DEF WiringTyped
  <2>5. closed \subseteq Pools
    BY <1>1 DEF WiringTyped
  <2> QED BY <1>1, <1>7, <2>1, <2>2, <2>3, <2>4, <2>5, SharedFrame DEF Shared
<1>8. ASSUME imported, reloadPools \/ destroyPools PROVE WiringInv'
  <2>1. /\ UNCHANGED <<modelFactories, poolOf, content, saved>>
        /\ closed' = Pools
        /\ \/ reloading' = [d \in Pools |-> "drain"] /\ disposed' = disposed
           \/ reloading' = reloading /\ disposed' = TRUE
    BY <1>8 DEF reloadPools, destroyPools
  <2>2. WiringTyped'
    BY <1>1, <2>1 DEF WiringTyped
  <2> QED BY <1>1, <1>8, <2>1, <2>2, SharedFrame DEF Shared
<1>9. ASSUME imported, reloadEnds PROVE WiringInv'
  <2>1. /\ UNCHANGED <<modelFactories, poolOf, content, saved, reloading, disposed>>
        /\ closed' \subseteq closed \cup (Pools \ Models)
    BY <1>9 DEF reloadEnds, removeUndeployedPools
  <2>2. WiringTyped'
    BY <1>1, <2>1 DEF WiringTyped
  <2> QED BY <1>1, <1>9, <2>1, <2>2, SharedFrame DEF Shared
<1>10. CASE UNCHANGED wiringVars
  BY <1>1, <1>10, FirstFrame DEF wiringVars, poolVars, WiringInv, WiringTyped, NotBefore, Shared,
     imported, WellWired, WellOrdered
<1> QED
  BY <1>2, <1>3, <1>4, <1>5, <1>6, <1>7, <1>8, <1>9, <1>10 DEF WiringNext

(* In a host whose domains are well ordered: what a thread saves is there  *)
(* for the main thread and for all threads whose pool is given its model,  *)
(* through all reloads; what is deleted is there for none of them.         *)
THEOREM MapsAreShared == WiringSpec => []PoolsShareMaps
<1>1. WiringInit => WiringInv
  BY WiringInitially
<1>2. WiringInv /\ [WiringNext]_wiringVars => WiringInv'
  BY WiringStep
<1>3. WiringInv => PoolsShareMaps
  <2> SUFFICES ASSUME WiringTyped, Shared, imported, WellWired PROVE PoolsShareMaps
    BY DEF WiringInv, PoolsShareMaps, WellWired
  <2>1. ASSUME NEW m \in Models, NEW t \in Sharers(m) \cup {Main}
        PROVE  m \in content[mapOf(t, m)] <=> m \in saved
    <3>1. CASE t = Main
      BY <2>1, <3>1 DEF Shared, mapOf, createSharedMap
    <3>2. CASE t \in Sharers(m)
      <4>1. t \in ThreadIds /\ poolOf[t] # NoPool /\ m \in findLocalRelatedModels(first(poolOf[t]))
        BY <3>2 DEF Sharers
      <4>2. mapOf(t, m) = <<Main, m>>
        BY <2>1, <4>1, MapFacts
      <4> QED BY <2>1, <4>2 DEF Shared
    <3> QED BY <2>1, <3>1, <3>2
  <2>2. ASSUME NEW x \in Maps PROVE Cardinality(content[x]) <= 1
    <3>1. content[x] \subseteq {x[2]}
      BY DEF Shared
    <3>2. IsFiniteSet({x[2]}) /\ Cardinality({x[2]}) = 1
      BY FS_Singleton
    <3> QED BY <3>1, <3>2, FS_Subset
  <2> QED BY <2>1, <2>2 DEF Shared, PoolsShareMaps
<1> QED BY <1>1, <1>2, <1>3, PTL DEF WiringSpec
=============================================================================
