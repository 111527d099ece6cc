---------------------------- MODULE MCAnswerDraft ----------------------------
(***************************************************************************)
(* One review as the server has it, with every turn, draft and retry; or,  *)
(* in a scene of its own, the phone that answers it.                       *)
(***************************************************************************)
EXTENDS MCReviewSession, AnswerDraft

ReviewMoves == Next /\ PhoneInit /\ UNCHANGED phoneVars
PhoneMoves == PhoneNext /\ Init /\ question = None /\ UNCHANGED vars
PhoneRests == ~PhoneInit /\ UNCHANGED <<vars, phoneVars>>

MCSpec == Init /\ PhoneInit /\ [][ReviewMoves \/ PhoneMoves \/ PhoneRests]_<<vars, phoneVars>>
==============================================================================
