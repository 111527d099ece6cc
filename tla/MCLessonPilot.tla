-------------------------- MODULE MCLessonPilot ------------------------------
(***************************************************************************)
(* Instances of MaterialImport, and of the study pilot beside it.  They    *)
(* have no variable in common - the pilot takes the import of a lesson as  *)
(* one claim and one result - so a scene exercises one of them.            *)
(***************************************************************************)
EXTENDS MaterialImport, LessonPilot, TLC

CONSTANTS l1, l2, seed1, seed2

\* The configuration gives both scenes the same model values - requests for workers,
\* processes for topics, answers for drafts -, so that one small group serves both.
ImportSymmetry == Permutations(Workers) \cup Permutations(Topics) \cup Permutations(Drafts)

------------------------------------------------------------------------------
(* One pair of lessons of two concepts.                                      *)

MCPairOf == [l \in Lessons |-> 1]

Turn(sequence, condition) == [sequence |-> sequence, condition |-> condition]
MCPlanOf ==
  (seed1 :> (l1 :> Turn(1, "attempt_first") @@ l2 :> Turn(2, "restudy")))
  @@ (seed2 :> (l1 :> Turn(2, "restudy") @@ l2 :> Turn(1, "attempt_first")))

MCIssued == [p \in Concepts |-> {p}]

MCPacks ==
  {[p \in Concepts |-> [topic |-> p, named |-> TRUE, bounded |-> TRUE, verbatim |-> verbatim,
                        open |-> TRUE, prompts |-> TRUE, grounded |-> TRUE]]
     : verbatim \in BOOLEAN}

\* A field passes, or fails with or without a repair; of the second concept one
\* field always passes.  One review has no findings.
Marks(p, field) ==
  {[concept |-> p, field |-> field, verdict |-> "supported", repair |-> FALSE, spans |-> {p}]}
  \cup (IF p # 1 /\ field \in OptionalFields THEN {} ELSE
        {[concept |-> p, field |-> field, verdict |-> "unsupported", repair |-> repair, spans |-> {}]
           : repair \in BOOLEAN})

MCReviews ==
  LET keys == Concepts \X Fields
      all == UNION {Marks(k[1], k[2]) : k \in keys}
  IN {{marks[k] : k \in keys} : marks \in {g \in [keys -> all] : \A k \in keys : g[k] \in Marks(k[1], k[2])}}
     \cup {{}}

------------------------------------------------------------------------------

\* The other lesson of the pair is not imported, and its target is the first.
OtherRests ==
  \A l \in Lessons \ {Studied} : lesson[l] # "processing" /\ manifest[l].intended \in {0, 1}

\* The learner studies a bound lesson that passed every review at once, and edits
\* nothing but its target.
Studying ==
  clock > 1 \/ opened \/ formation # NoCheck \/ transfer # NoTransfer
    \/ Cardinality(zones) > 1 \/ kept # NotKept

Studied1 ==
  /\ \A l \in Lessons \ {Studied} : lesson[l] = "pending"
  /\ manifest[Studied].sequence # 0
  /\ lesson[Studied] # "deleted" =>
       /\ manifest[Studied].target # 0
       /\ \A p \in Concepts :
            /\ audit[Studied][p] = "approved"
            /\ topic[Studied][p].text \in
                 {"original"} \cup (IF p = manifest[Studied].target THEN {"edited"} ELSE {})

\* Submissions race each other and deaths early, before any transfer.
Racing ==
  Len(ledger) > 1 \/ deaths > 0 \/ Cardinality({r \in Submits : ~Idle(r)}) > 1

PilotScene ==
  /\ OtherRests /\ (Studying => Studied1)
  /\ Racing => clock <= 2 /\ transfer = NoTransfer /\ Cardinality(zones) = 1

\* Two workers are at work only before the first topic is in the library.
ImportScene ==
  (\A w \in Workers : pc[w] # "idle") => \A t \in Topics : cards[t] = 0

PilotTouched == enrollment.status # "none" \/ \E l \in Lessons : lesson[l] # "none"

ImportTouched == \E s \in Sources : row[s].status # "none"

MCImportInit == Init /\ StudyInit /\ (\A length \in Holds : hold <= length)
MCImportNext ==
  \/ /\ ~PilotTouched
     /\ Next /\ ImportScene' /\ UNCHANGED <<protocolVars, pilotVars>>
  \/ /\ ~ImportTouched /\ (\A t \in Topics : cards[t] = 0)
     /\ StudyNext /\ PilotScene' /\ UNCHANGED vars

MCImportSpec == MCImportInit /\ [][MCImportNext]_<<vars, protocolVars, pilotVars>>
=============================================================================
