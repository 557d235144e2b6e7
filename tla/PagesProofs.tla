----------------------------- MODULE PagesProofs -----------------------------
(***************************************************************************)
(* Proofs about the plug-in's own pages, for any dashboards, servers,      *)
(* tasks, projects and bounds: the types; the context and the messages of  *)
(* the overview page; and the conversation of the code analysis page.      *)
(*                                                                         *)
(* The pages share no state, so each has an inductive invariant of its     *)
(* own (OverviewInv, OpsInv, CodeInv) and a step of one page leaves those  *)
(* of the others alone.                                                    *)
(***************************************************************************)
EXTENDS Pages, FiniteSetTheorems, SequenceTheorems, TLAPS

-----------------------------------------------------------------------------
(* The code analysis page *)

\* An answer stands right behind its question.
Follows(ts) ==
    \A i \in 1..Len(ts) :
        ts[i].role = "assistant" /\ i > 1 => ts[i - 1] = [ts[i] EXCEPT !.role = "user"]

\* A well formed conversation about the project r.
Conversation(ts, r) ==
    /\ ts \in Seq(Code!Turn)
    /\ Follows(ts)
    /\ \A i \in 1..Len(ts) : ts[i].repo = r

\* The conversation that is shown, and the one a reload restores.
TurnsInv ==
    /\ Conversation(turns, repo) /\ Len(turns) <= TurnLimit + asked
    /\ Conversation(saved.turns, saved.repo) /\ Len(saved.turns) <= TurnLimit + asked

\* What submit holds across its awaits; the page is locked meanwhile, so that the project
\* stays the selected one.
CallInv ==
    /\ call.stage # "idle" =>
          /\ codeMounted /\ codeBusy /\ ~opening.waits /\ repo # None
          /\ Conversation(call.before, repo) /\ Len(call.before) < TurnLimit + asked
          /\ call.question \in 1..asked
    /\ call.stage = "analyze" => inspected = repo

\* A report at hand is about the selected project, and there is none before the page is
\* connected.
InspectedInv ==
    /\ inspected \in {None, repo}
    /\ ~codeMounted => inspected = None
    /\ opening.waits => codeBusy /\ call.stage = "idle" /\ inspected = None

CodeInv == Code!TypeOK /\ TurnsInv /\ CallInv /\ InspectedInv /\ Code!ActivityIsRunning

LEMMA CodeConstants ==
    /\ TurnLimit \in Nat /\ TurnLimit > 0 /\ MaxQuestions \in Nat /\ MaxReloads \in Nat /\ None \notin Repos
BY PagesAssumption DEF Code!CodeChatAssumption

LEMMA EmptyConversation ==
    ASSUME NEW r
    PROVE  Conversation(<<>>, r) /\ Len(<<>>) = 0
BY DEF Conversation, Follows

\* A question is appended.
LEMMA QuestionAsked ==
    ASSUME NEW ts, NEW r \in Repos, Conversation(ts, r), NEW n \in 1..MaxQuestions
    PROVE  LET q == [role |-> "user", question |-> n, repo |-> r]
           IN  /\ q \in Code!Turn
               /\ Conversation(Append(ts, q), r) /\ Len(Append(ts, q)) = Len(ts) + 1
<1>1. PICK q : q = [role |-> "user", question |-> n, repo |-> r]
  OBVIOUS
<1>2. q \in Code!Turn /\ q.role = "user" /\ q.repo = r
  BY <1>1 DEF Code!Turn
<1>3. ts \in Seq(Code!Turn) /\ Len(ts) \in Nat
  BY DEF Conversation
<1>4. PICK us : us = Append(ts, q)
  OBVIOUS
<1>5. /\ us \in Seq(Code!Turn) /\ Len(us) = Len(ts) + 1
      /\ \A i \in 1..Len(ts) : us[i] = ts[i]
      /\ us[Len(ts) + 1] = q
  BY <1>2, <1>3, <1>4, AppendProperties
<1>6. \A i \in 1..Len(us) : us[i].repo = r
  BY <1>2, <1>3, <1>5 DEF Conversation
<1>7. ASSUME NEW i \in 1..Len(us), us[i].role = "assistant", i > 1
      PROVE  us[i - 1] = [us[i] EXCEPT !.role = "user"]
  <2>1. i \in 1..Len(ts) /\ i - 1 \in 1..Len(ts)
    BY <1>2, <1>3, <1>5, <1>7
  <2>2. ts[i - 1] = [ts[i] EXCEPT !.role = "user"]
    BY <1>5, <1>7, <2>1 DEF Conversation, Follows
  <2>3. QED
    BY <1>5, <2>1, <2>2
<1>8. Conversation(us, r)
  BY <1>5, <1>6, <1>7 DEF Conversation, Follows
<1>9. QED
  BY <1>1, <1>2, <1>4, <1>5, <1>8

\* A question and its answer are appended.
LEMMA AnswerGiven ==
    ASSUME NEW ts, NEW r \in Repos, Conversation(ts, r), NEW n \in 1..MaxQuestions,
           NEW a, a = [role |-> "assistant", question |-> n, repo |-> r]
    PROVE  LET q == [a EXCEPT !.role = "user"]
           IN  /\ Conversation(Append(Append(ts, q), a), r)
               /\ Len(Append(Append(ts, q), a)) = Len(ts) + 2
<1>1. PICK q : q = [role |-> "user", question |-> n, repo |-> r]
  OBVIOUS
<1>2. q = [a EXCEPT !.role = "user"] /\ a \in Code!Turn /\ a.repo = r /\ q \in Code!Turn
  BY <1>1 DEF Code!Turn
<1>3. PICK us : us = Append(ts, q)
  OBVIOUS
<1>4. Conversation(us, r) /\ Len(us) = Len(ts) + 1
  BY <1>1, <1>3, QuestionAsked
<1>5. us \in Seq(Code!Turn) /\ Len(us) \in Nat /\ Len(ts) \in Nat /\ ts \in Seq(Code!Turn)
  BY <1>4 DEF Conversation
<1>6. us[Len(ts) + 1] = q
  BY <1>2, <1>3, <1>5, AppendProperties
<1>7. PICK vs : vs = Append(us, a)
  OBVIOUS
<1>8. /\ vs \in Seq(Code!Turn) /\ Len(vs) = Len(us) + 1
      /\ \A i \in 1..Len(us) : vs[i] = us[i]
      /\ vs[Len(us) + 1] = a
  BY <1>2, <1>5, <1>7, AppendProperties
<1>9. \A i \in 1..Len(vs) : vs[i].repo = r
  <2>1. SUFFICES ASSUME NEW i \in 1..Len(vs) PROVE vs[i].repo = r
    OBVIOUS
  <2>2. CASE i \in 1..Len(us)
    BY <1>4, <1>8, <2>2 DEF Conversation
  <2>3. CASE i = Len(us) + 1
    BY <1>2, <1>8, <2>3
  <2>4. QED
    BY <1>5, <1>8, <2>2, <2>3
<1>10. ASSUME NEW i \in 1..Len(vs), vs[i].role = "assistant", i > 1
       PROVE  vs[i - 1] = [vs[i] EXCEPT !.role = "user"]
  <2>1. CASE i = Len(vs)
    <3>1. vs[i] = a /\ vs[i - 1] = us[Len(ts) + 1]
      BY <1>4, <1>5, <1>8, <2>1
    <3>2. QED
      BY <1>2, <1>6, <3>1
  <2>2. CASE i # Len(vs)
    <3>1. i \in 1..Len(us) /\ i - 1 \in 1..Len(us)
      BY <1>5, <1>8, <1>10, <2>2
    <3>2. us[i - 1] = [us[i] EXCEPT !.role = "user"]
      BY <1>4, <1>8, <1>10, <3>1 DEF Conversation, Follows
    <3>3. QED
      BY <1>8, <3>1, <3>2
  <2>3. QED
    BY <2>1, <2>2
<1>11. Conversation(vs, r)
  BY <1>8, <1>9, <1>10 DEF Conversation, Follows
<1>12. QED
  BY <1>2, <1>3, <1>4, <1>5, <1>7, <1>8, <1>11

\* slice(-TurnLimit) of a conversation is one.
LEMMA LatestTurns ==
    ASSUME NEW ts, NEW r, Conversation(ts, r)
    PROVE  /\ Conversation(Code!Latest(ts), r)
           /\ Len(Code!Latest(ts)) <= TurnLimit /\ Len(Code!Latest(ts)) \in Nat
<1>1. PICK m : m = IF Len(ts) > TurnLimit THEN Len(ts) - TurnLimit + 1 ELSE 1
  OBVIOUS
<1>2. PICK us : us = Code!Latest(ts)
  OBVIOUS
<1>3. us = SubSeq(ts, m, Len(ts))
  BY <1>1, <1>2 DEF Code!Latest
<1>4. ts \in Seq(Code!Turn) /\ Len(ts) \in Nat
  BY DEF Conversation
<1>5. m \in Nat /\ m >= 1 /\ Len(ts) - m + 1 \in Nat /\ Len(ts) - m + 1 <= TurnLimit
  BY <1>1, <1>4, CodeConstants
<1>6. \A i \in m..Len(ts) : ts[i] \in Code!Turn
  <2>1. \A i \in 1..Len(ts) : ts[i] \in Code!Turn
    BY <1>4
  <2>2. QED
    BY <1>4, <1>5, <2>1
<1>7. /\ us \in Seq(Code!Turn) /\ Len(us) = Len(ts) - m + 1
      /\ \A i \in 1..Len(us) : us[i] = ts[m + i - 1]
  <2>1. /\ SubSeq(ts, m, Len(ts)) \in Seq(Code!Turn)
        /\ Len(SubSeq(ts, m, Len(ts))) = IF m <= Len(ts) THEN Len(ts) - m + 1 ELSE 0
        /\ \A i \in 1 .. Len(ts) - m + 1 : SubSeq(ts, m, Len(ts))[i] = ts[m + i - 1]
    BY <1>4, <1>5, <1>6, SubSeqProperties
  <2>2. QED
    BY <1>3, <1>4, <1>5, <2>1
<1>8. \A i \in 1..Len(us) : m + i - 1 \in 1..Len(ts) /\ m + (i - 1) - 1 = (m + i - 1) - 1
  BY <1>4, <1>5, <1>7
<1>9. \A i \in 1..Len(us) : us[i].repo = r
  BY <1>7, <1>8 DEF Conversation
<1>10. ASSUME NEW i \in 1..Len(us), us[i].role = "assistant", i > 1
       PROVE  us[i - 1] = [us[i] EXCEPT !.role = "user"]
  <2>1. PICK k : k = m + i - 1
    OBVIOUS
  <2>2. k \in 1..Len(ts) /\ k > 1 /\ us[i] = ts[k] /\ us[i - 1] = ts[k - 1]
    <3>1. i - 1 \in 1..Len(us) /\ m + (i - 1) - 1 = k - 1
      BY <1>5, <1>7, <1>10, <2>1
    <3>2. us[i - 1] = ts[m + (i - 1) - 1]
      BY <1>7, <3>1
    <3>3. k > 1
      BY <1>5, <1>10, <2>1
    <3>4. QED
      BY <1>7, <1>8, <2>1, <3>1, <3>2, <3>3
  <2>3. QED
    BY <1>10, <2>2 DEF Conversation, Follows
<1>11. Conversation(us, r)
  BY <1>7, <1>9, <1>10 DEF Conversation, Follows
<1>12. QED
  BY <1>2, <1>5, <1>7, <1>11

\* A conversation within the limit is what the types ask for.
LEMMA ConversationTypes ==
    ASSUME NEW ts, NEW r, Conversation(ts, r), NEW n \in 0..MaxQuestions, Len(ts) <= TurnLimit + n
    PROVE  Code!IsConversation(ts)
<1>1. ts \in Seq(Code!Turn) /\ Len(ts) \in Nat
  BY DEF Conversation
<1>2. Len(ts) <= TurnLimit + MaxQuestions
  BY <1>1, CodeConstants
<1>3. \A i \in DOMAIN ts : ts[i] \in Code!Turn
  BY <1>1
<1>4. QED
  BY <1>2, <1>3 DEF Code!IsConversation

\* The effect keeps what a reload restores equal to what is shown.
LEMMA ConversationSaved ==
    ASSUME Code!Save, Conversation(turns', repo'), asked' \in 0..MaxQuestions, Len(turns') <= TurnLimit + asked'
    PROVE  /\ TurnsInv'
           /\ Code!IsConversation(turns') /\ Code!IsConversation(saved'.turns) /\ saved'.repo = repo'
<1>1. saved'.repo = repo' /\ saved'.turns = turns'
  BY DEF Code!Save
<1>2. Code!IsConversation(turns')
  BY ConversationTypes
<1>3. Conversation(saved'.turns, saved'.repo) /\ Len(saved'.turns) <= TurnLimit + asked'
  BY <1>1
<1>4. TurnsInv'
  BY <1>3 DEF TurnsInv
<1>5. QED
  BY <1>1, <1>2, <1>4

\* Nothing of the conversation changes.
LEMMA SameTurns ==
    ASSUME CodeInv, UNCHANGED <<saved, repo, turns, asked>>
    PROVE  /\ TurnsInv'
           /\ Code!IsConversation(turns') /\ Code!IsConversation(saved'.turns)
           /\ repo' \in Repos \cup {None} /\ saved'.repo \in Repos \cup {None}
           /\ asked' \in 0..MaxQuestions
<1>1. TurnsInv'
  BY DEF CodeInv, TurnsInv
<1>2. QED
  BY <1>1 DEF CodeInv, Code!TypeOK

LEMMA NoCallTyped ==
    /\ Code!NoCall.stage = "idle" /\ Code!NoCall.question \in 0..MaxQuestions
    /\ Code!IsConversation(Code!NoCall.before)
BY CodeConstants DEF Code!NoCall, Code!IsConversation

LEMMA MountStep ==
    ASSUME CodeInv, Code!Mount
    PROVE  CodeInv'
<1>1. PICK ts : ts = saved.turns
  OBVIOUS
<1>2. PICK r \in Repos \cup {None} : r = saved.repo
  BY DEF CodeInv, Code!TypeOK
<1>3. asked \in 0..MaxQuestions /\ asked' = asked /\ call.stage = "idle" /\ inspected = None
  BY DEF CodeInv, CallInv, InspectedInv, Code!TypeOK, Code!Mount
<1>4. Conversation(Code!Latest(ts), r) /\ Len(Code!Latest(ts)) <= TurnLimit /\ Len(Code!Latest(ts)) \in Nat
  <2>1. Conversation(ts, r)
    BY <1>1, <1>2 DEF CodeInv, TurnsInv
  <2>2. QED
    BY <2>1, LatestTurns
<1>5. /\ turns' = Code!Latest(ts) /\ repo' = r /\ Code!Save
      /\ codeMounted' = TRUE /\ codeBusy' = TRUE /\ activity' = "initialize"
      /\ opening' = [health |-> "asked", stage |-> 1, waits |-> TRUE]
      /\ UNCHANGED <<projects, inspected, call, asked, reloads>>
  BY <1>1, <1>2 DEF Code!Mount, Code!Handshake
<1>6. /\ TurnsInv'
      /\ Code!IsConversation(turns') /\ Code!IsConversation(saved'.turns) /\ saved'.repo = repo'
  <2>1. Conversation(turns', repo') /\ asked' \in 0..MaxQuestions
    BY <1>3, <1>4, <1>5
  <2>2. Len(turns') <= TurnLimit + asked'
    BY <1>3, <1>4, <1>5, CodeConstants
  <2>3. QED
    BY <1>5, <2>1, <2>2, ConversationSaved
<1>7. Code!TypeOK'
  BY <1>2, <1>5, <1>6 DEF CodeInv, Code!TypeOK, Code!Stages
<1>8. CallInv' /\ InspectedInv' /\ Code!ActivityIsRunning'
  BY <1>3, <1>5 DEF CallInv, InspectedInv, Code!ActivityIsRunning, Code!Handshake
<1>9. QED
  BY <1>6, <1>7, <1>8 DEF CodeInv

\* The list of projects, or none, answers while the page waits for it: nothing was asked yet.
LEMMA ConnectedStep ==
    ASSUME CodeInv, opening.waits, NEW change, Code!Connected(change), UNCHANGED asked
    PROVE  /\ TurnsInv'
           /\ Code!IsConversation(turns') /\ Code!IsConversation(saved'.turns)
           /\ repo' \in Repos \cup {None} /\ saved'.repo \in Repos \cup {None}
           /\ asked' \in 0..MaxQuestions
           /\ projects' \subseteq Repos /\ inspected' = None /\ call.stage = "idle"
<1>1. /\ asked \in 0..MaxQuestions /\ repo \in Repos \cup {None} /\ projects \subseteq Repos
      /\ inspected = None /\ call.stage = "idle"
      /\ Conversation(turns, repo) /\ Len(turns) <= TurnLimit + asked
  BY DEF CodeInv, Code!TypeOK, InspectedInv, TurnsInv
<1>2. CASE UNCHANGED <<projects, repo, turns, inspected, saved>>
  BY <1>1, <1>2, SameTurns
<1>3. ASSUME NEW listed \in SUBSET Repos \ {{}}, projects' = listed, Code!Reconcile(listed), Code!Save
      PROVE  /\ TurnsInv'
             /\ Code!IsConversation(turns') /\ Code!IsConversation(saved'.turns) /\ saved'.repo = repo'
             /\ repo' \in Repos \cup {None} /\ inspected' = None /\ projects' \subseteq Repos
  <2>1. /\ repo' \in Repos \cup {None} /\ inspected' = None
        /\ (repo' = repo /\ turns' = turns) \/ turns' = <<>>
    BY <1>1, <1>3 DEF Code!Reconcile
  <2>2. Conversation(turns', repo') /\ Len(turns') <= TurnLimit + asked'
    <3>1. CASE repo' = repo /\ turns' = turns
      BY <1>1, <3>1
    <3>2. CASE turns' = <<>>
      <4>1. Conversation(turns', repo') /\ Len(turns') = 0
        BY <3>2, EmptyConversation
      <4>2. QED
        BY <1>1, <4>1, CodeConstants
    <3>3. QED
      BY <2>1, <3>1, <3>2
  <2>3. QED
    BY <1>1, <1>3, <2>1, <2>2, ConversationSaved
<1>4. QED
  BY <1>1, <1>2, <1>3 DEF Code!Connected

LEMMA HandshakeStages == \A i \in 1..4 : Code!Handshake[i] \in Code!Stages
BY DEF Code!Handshake, Code!Stages

\* What is left to show for the answers that open the page.
LEMMA OpeningStep ==
    ASSUME CodeInv, UNCHANGED <<codeMounted, call, asked, reloads>>,
           opening' \in [health : {"asked", "ok", "failed"}, stage : 1..5 \cup {0}, waits : BOOLEAN],
           opening'.waits => opening.waits /\ codeBusy' = codeBusy,
           ~opening.waits => codeBusy' = codeBusy,
           codeBusy' \in BOOLEAN,
           activity' \in Code!Stages \cup {None}, Code!ActivityIsRunning',
           \/ UNCHANGED <<projects, repo, turns, inspected, saved>>
           \/ opening.waits /\ \E change : Code!Connected(change)
    PROVE  CodeInv'
<1>1. /\ TurnsInv'
      /\ Code!IsConversation(turns') /\ Code!IsConversation(saved'.turns)
      /\ repo' \in Repos \cup {None} /\ saved'.repo \in Repos \cup {None}
      /\ asked' \in 0..MaxQuestions /\ projects' \subseteq Repos
      /\ \/ inspected' = None /\ call.stage = "idle"
         \/ inspected' = inspected /\ repo' = repo
  <2>1. CASE UNCHANGED <<projects, repo, turns, inspected, saved>>
    BY <2>1, SameTurns DEF CodeInv, Code!TypeOK
  <2>2. CASE opening.waits /\ \E change : Code!Connected(change)
    BY <2>2, ConnectedStep
  <2>3. QED
    BY <2>1, <2>2
<1>2. Code!TypeOK'
  BY <1>1 DEF CodeInv, Code!TypeOK
<1>3. CallInv'
  BY <1>1 DEF CodeInv, CallInv
<1>4. InspectedInv'
  BY <1>1 DEF CodeInv, CallInv, InspectedInv, Code!TypeOK
<1>5. QED
  BY <1>1, <1>2, <1>3, <1>4 DEF CodeInv

LEMMA HealthAnswerStep ==
    ASSUME CodeInv, Code!HealthAnswer
    PROVE  CodeInv'
<1>1. /\ opening.health = "asked" /\ UNCHANGED <<codeMounted, activity, call, asked, reloads>>
      /\ opening \in [health : {"asked", "ok", "failed"}, stage : 1..5 \cup {0}, waits : BOOLEAN]
      /\ codeBusy \in BOOLEAN /\ activity \in Code!Stages \cup {None} /\ Code!ActivityIsRunning
  BY DEF CodeInv, Code!TypeOK, Code!HealthAnswer
<1>2. PICK ok : ok = [opening EXCEPT !.health = "ok"]
  OBVIOUS
<1>3. PICK failed : failed = [opening EXCEPT !.health = "failed"]
  OBVIOUS
<1>4. /\ opening' \in [health : {"asked", "ok", "failed"}, stage : 1..5 \cup {0}, waits : BOOLEAN]
      /\ opening'.stage = opening.stage
      /\ opening'.waits => opening.waits /\ codeBusy' = codeBusy
      /\ ~opening.waits => codeBusy' = codeBusy
      /\ codeBusy' \in BOOLEAN
      /\ \/ UNCHANGED <<projects, repo, turns, inspected, saved>>
         \/ opening.waits /\ \E change : Code!Connected(change)
  <2>1. CASE opening.stage = 5 /\ opening.waits /\ Code!Connected(ok)
    <3>1. opening' = [ok EXCEPT !.waits = FALSE] /\ codeBusy' = FALSE
      BY <2>1 DEF Code!Connected
    <3>2. QED
      BY <1>1, <1>2, <2>1, <3>1
  <2>2. CASE opening' = ok /\ UNCHANGED <<projects, repo, turns, inspected, saved, codeBusy>>
    BY <1>1, <1>2, <2>2
  <2>3. CASE Code!GiveUp(failed) /\ UNCHANGED <<projects, repo, turns, inspected, saved>>
    BY <1>1, <1>3, <2>3 DEF Code!GiveUp
  <2>4. QED
    BY <1>2, <1>3, <2>1, <2>2, <2>3 DEF Code!HealthAnswer
<1>5. Code!ActivityIsRunning'
  BY <1>1, <1>4 DEF Code!ActivityIsRunning
<1>6. QED
  BY <1>1, <1>4, <1>5, OpeningStep

LEMMA HandshakeAnswerStep ==
    ASSUME CodeInv, Code!HandshakeAnswer
    PROVE  CodeInv'
<1>1. /\ opening.stage \in 1..4 /\ UNCHANGED <<codeMounted, call, asked, reloads>>
      /\ opening \in [health : {"asked", "ok", "failed"}, stage : 1..5 \cup {0}, waits : BOOLEAN]
      /\ codeBusy \in BOOLEAN /\ activity \in Code!Stages \cup {None} /\ Code!ActivityIsRunning
  BY DEF CodeInv, Code!TypeOK, Code!HandshakeAnswer
<1>2. PICK next : next = [opening EXCEPT !.stage = @ + 1]
  OBVIOUS
<1>3. PICK failed : failed = [opening EXCEPT !.stage = 0]
  OBVIOUS
<1>4. next \in [health : {"asked", "ok", "failed"}, stage : 1..5 \cup {0}, waits : BOOLEAN]
      /\ next.waits = opening.waits /\ next.stage = opening.stage + 1
  BY <1>1, <1>2
<1>5. CASE /\ opening.stage < 4
           /\ opening' = next /\ activity' = Code!Handshake[opening.stage + 1]
           /\ UNCHANGED <<projects, repo, turns, inspected, saved, codeBusy>>
  <2>1. opening'.stage \in 1..4 /\ activity' = Code!Handshake[opening'.stage]
    BY <1>1, <1>4, <1>5
  <2>2. activity' \in Code!Stages \cup {None} /\ Code!ActivityIsRunning'
    BY <2>1, HandshakeStages DEF Code!ActivityIsRunning
  <2>3. QED
    BY <1>1, <1>4, <1>5, <2>2, OpeningStep
<1>6. ASSUME NEW s, s = Code!Handshake[opening.stage], activity' = Code!StageOver(s)
      PROVE  activity' \in Code!Stages \cup {None} /\ Code!ActivityIsRunning'
  BY <1>1, <1>6 DEF Code!StageOver, Code!ActivityIsRunning
<1>7. CASE /\ opening.stage = 4
           /\ activity' = Code!StageOver("catalog")
           /\ IF opening.waits /\ opening.health = "ok"
              THEN Code!Connected(next)
              ELSE opening' = next /\ UNCHANGED <<projects, repo, turns, inspected, saved, codeBusy>>
  <2>1. activity' \in Code!Stages \cup {None} /\ Code!ActivityIsRunning'
    <3>1. Code!Handshake[opening.stage] = "catalog"
      BY <1>7 DEF Code!Handshake
    <3>2. QED
      BY <1>6, <1>7, <3>1
  <2>2. CASE opening.waits /\ Code!Connected(next)
    <3>1. opening' = [next EXCEPT !.waits = FALSE] /\ codeBusy' = FALSE
      BY <2>2 DEF Code!Connected
    <3>2. QED
      BY <1>1, <1>4, <2>1, <2>2, <3>1, OpeningStep
  <2>3. CASE opening' = next /\ UNCHANGED <<projects, repo, turns, inspected, saved, codeBusy>>
    BY <1>1, <1>4, <2>1, <2>3, OpeningStep
  <2>4. QED
    BY <1>7, <2>2, <2>3
<1>8. CASE /\ activity' = Code!StageOver(Code!Handshake[opening.stage])
           /\ Code!GiveUp(failed)
           /\ UNCHANGED <<projects, repo, turns, inspected, saved>>
  <2>1. activity' \in Code!Stages \cup {None} /\ Code!ActivityIsRunning'
    BY <1>6, <1>8
  <2>2. /\ opening' \in [health : {"asked", "ok", "failed"}, stage : 1..5 \cup {0}, waits : BOOLEAN]
        /\ opening'.waits = FALSE /\ codeBusy' = (IF opening.waits THEN FALSE ELSE codeBusy)
    BY <1>1, <1>3, <1>8 DEF Code!GiveUp
  <2>3. QED
    BY <1>1, <1>8, <2>1, <2>2, OpeningStep
<1>9. QED
  BY <1>2, <1>3, <1>5, <1>7, <1>8 DEF Code!HandshakeAnswer

\* The turns are about the selected project, so there is one when there are turns.
LEMMA SelectProjectStep ==
    ASSUME CodeInv, NEW r \in Repos, Code!SelectProject(r)
    PROVE  CodeInv'
<1>1. /\ codeMounted /\ ~codeBusy /\ turns = <<>> /\ repo' = r /\ inspected' = None /\ turns' = turns /\ Code!Save
      /\ UNCHANGED <<codeMounted, opening, projects, codeBusy, activity, call, asked, reloads>>
  BY DEF Code!SelectProject
<1>2. asked' \in 0..MaxQuestions /\ call.stage = "idle"
  BY <1>1 DEF CodeInv, CallInv, Code!TypeOK
<1>3. Conversation(turns', repo') /\ Len(turns') <= TurnLimit + asked'
  <2>1. Conversation(turns', repo') /\ Len(turns') = 0
    BY <1>1, EmptyConversation
  <2>2. PICK n \in 0..MaxQuestions : n = asked'
    BY <1>2
  <2>3. 0 <= TurnLimit + n
    BY CodeConstants
  <2>4. QED
    BY <2>1, <2>2, <2>3
<1>4. TurnsInv' /\ Code!IsConversation(turns') /\ Code!IsConversation(saved'.turns) /\ saved'.repo = repo'
  BY <1>1, <1>2, <1>3, ConversationSaved
<1>5. Code!TypeOK'
  BY <1>1, <1>2, <1>4 DEF CodeInv, Code!TypeOK
<1>6. CallInv' /\ InspectedInv' /\ Code!ActivityIsRunning'
  BY <1>1, <1>2 DEF CodeInv, CallInv, InspectedInv, Code!ActivityIsRunning
<1>7. QED
  BY <1>4, <1>5, <1>6 DEF CodeInv

\* A question joins the conversation it was asked about.
LEMMA QuestionJoins ==
    ASSUME NEW before, NEW n \in 1..MaxQuestions, repo \in Repos, repo' = repo, Code!Save,
           Conversation(before, repo), Len(before) < TurnLimit + asked', asked' \in 0..MaxQuestions,
           turns' = Append(before, [role |-> "user", question |-> n, repo |-> repo])
    PROVE  /\ TurnsInv'
           /\ Code!IsConversation(turns') /\ Code!IsConversation(saved'.turns) /\ saved'.repo = repo'
<1>1. PICK r \in Repos : r = repo
  OBVIOUS
<1>2. Conversation(turns', r) /\ Len(turns') = Len(before) + 1
  BY <1>1, QuestionAsked
<1>3. Len(before) \in Nat
  BY DEF Conversation
<1>4. Conversation(turns', repo') /\ Len(turns') <= TurnLimit + asked'
  BY <1>1, <1>2, <1>3, CodeConstants
<1>5. QED
  BY <1>4, ConversationSaved

LEMMA SubmitStep ==
    ASSUME CodeInv, Code!Submit
    PROVE  CodeInv'
<1>1. /\ codeMounted /\ ~codeBusy /\ repo # None /\ asked < MaxQuestions /\ asked' = asked + 1 /\ codeBusy' = TRUE
      /\ repo' = repo /\ Code!Save
      /\ UNCHANGED <<codeMounted, opening, projects, inspected, reloads>>
  BY DEF Code!Submit
<1>2. /\ asked \in 0..MaxQuestions /\ asked' \in 1..MaxQuestions /\ repo \in Repos
      /\ Conversation(turns, repo) /\ Len(turns) <= TurnLimit + asked /\ Len(turns) \in Nat
      /\ Code!IsConversation(turns)
      /\ ~opening.waits /\ inspected \in {None, repo}
  BY <1>1, CodeConstants DEF CodeInv, TurnsInv, InspectedInv, Code!TypeOK, Conversation
<1>3. Len(turns) < TurnLimit + asked' /\ Len(turns) <= TurnLimit + asked'
  BY <1>1, <1>2, CodeConstants
<1>4. CASE /\ inspected = None
           /\ call' = [stage |-> "inspect", question |-> asked', before |-> turns]
           /\ activity' = "inspect"
           /\ turns' = turns
  <2>1. TurnsInv' /\ Code!IsConversation(turns') /\ Code!IsConversation(saved'.turns) /\ saved'.repo = repo'
    BY <1>1, <1>2, <1>3, <1>4, ConversationSaved
  <2>2. Code!TypeOK'
    BY <1>1, <1>2, <1>4, <2>1 DEF CodeInv, Code!TypeOK, Code!Stages
  <2>3. CallInv' /\ InspectedInv' /\ Code!ActivityIsRunning'
    BY <1>1, <1>2, <1>3, <1>4 DEF CallInv, InspectedInv, Code!ActivityIsRunning
  <2>4. QED
    BY <2>1, <2>2, <2>3 DEF CodeInv
<1>5. CASE inspected # None /\ Code!Analyze(asked', turns)
  <2>1. /\ call' = [stage |-> "analyze", question |-> asked', before |-> turns]
        /\ activity' = "analyze"
        /\ turns' = Append(turns, [role |-> "user", question |-> asked', repo |-> repo])
    BY <1>5 DEF Code!Analyze
  <2>2. TurnsInv' /\ Code!IsConversation(turns') /\ Code!IsConversation(saved'.turns) /\ saved'.repo = repo'
    <3>1. PICK n \in 1..MaxQuestions : n = asked'
      BY <1>2
    <3>2. turns' = Append(turns, [role |-> "user", question |-> n, repo |-> repo])
      BY <2>1, <3>1
    <3>3. asked' \in 0..MaxQuestions
      BY <1>2
    <3>4. QED
      BY <1>1, <1>2, <1>3, <3>2, <3>3, QuestionJoins
  <2>3. Code!TypeOK'
    BY <1>1, <1>2, <2>1, <2>2 DEF CodeInv, Code!TypeOK, Code!Stages
  <2>4. CallInv' /\ InspectedInv' /\ Code!ActivityIsRunning'
    BY <1>1, <1>2, <1>3, <1>5, <2>1 DEF CallInv, InspectedInv, Code!ActivityIsRunning
  <2>5. QED
    BY <2>2, <2>3, <2>4 DEF CodeInv
<1>6. QED
  BY <1>4, <1>5 DEF Code!Submit

\* What a stage of submit has in hand.
LEMMA CallInHand ==
    ASSUME CodeInv, call.stage # "idle"
    PROVE  /\ codeMounted /\ codeBusy /\ ~opening.waits /\ repo \in Repos
           /\ Conversation(call.before, repo) /\ Len(call.before) \in Nat /\ Len(call.before) < TurnLimit + asked
           /\ call.question \in 1..asked /\ call.question \in 1..MaxQuestions /\ asked \in 0..MaxQuestions
           /\ Code!IsConversation(call.before)
<1>1. repo \in Repos /\ asked \in 0..MaxQuestions /\ Code!IsConversation(call.before)
  BY DEF CodeInv, CallInv, Code!TypeOK
<1>2. /\ codeMounted /\ codeBusy /\ ~opening.waits
      /\ Conversation(call.before, repo) /\ Len(call.before) < TurnLimit + asked
      /\ call.question \in 1..asked
  BY DEF CodeInv, CallInv
<1>3. Len(call.before) \in Nat
  BY <1>2 DEF Conversation
<1>4. call.question \in 1..MaxQuestions
  BY <1>1, <1>2, CodeConstants
<1>5. QED
  BY <1>1, <1>2, <1>3, <1>4

LEMMA InspectedStep ==
    ASSUME CodeInv, Code!Inspected \/ Code!InspectedTooLate
    PROVE  CodeInv'
<1>1. /\ call.stage = "inspect" /\ inspected' = repo /\ repo' = repo /\ Code!Save
      /\ turns' = Append(call.before, [role |-> "user", question |-> call.question, repo |-> repo])
      /\ UNCHANGED <<codeMounted, opening, projects, asked, reloads>>
      /\ \/ /\ codeBusy' = codeBusy /\ activity' = "analyze"
            /\ call' = [stage |-> "analyze", question |-> call.question, before |-> call.before]
         \/ codeBusy' = FALSE /\ activity' = None /\ call' = Code!NoCall
  BY DEF Code!Inspected, Code!InspectedTooLate, Code!Analyze
<1>2. /\ codeMounted /\ codeBusy /\ ~opening.waits /\ repo \in Repos
      /\ Conversation(call.before, repo) /\ Len(call.before) \in Nat /\ Len(call.before) < TurnLimit + asked
      /\ call.question \in 1..asked /\ call.question \in 1..MaxQuestions /\ asked \in 0..MaxQuestions
      /\ Code!IsConversation(call.before)
  BY <1>1, CallInHand
<1>3. TurnsInv' /\ Code!IsConversation(turns') /\ Code!IsConversation(saved'.turns) /\ saved'.repo = repo'
  BY <1>1, <1>2, QuestionJoins
<1>4. CASE /\ codeBusy' = codeBusy /\ activity' = "analyze"
           /\ call' = [stage |-> "analyze", question |-> call.question, before |-> call.before]
  <2>1. Code!TypeOK'
    BY <1>1, <1>2, <1>3, <1>4 DEF CodeInv, Code!TypeOK, Code!Stages
  <2>2. CallInv' /\ InspectedInv' /\ Code!ActivityIsRunning'
    BY <1>1, <1>2, <1>4, CodeConstants DEF CallInv, InspectedInv, Code!ActivityIsRunning
  <2>3. QED
    BY <1>3, <2>1, <2>2 DEF CodeInv
<1>5. CASE codeBusy' = FALSE /\ activity' = None /\ call' = Code!NoCall
  <2>1. /\ call'.stage = "idle" /\ call'.question \in 0..MaxQuestions /\ Code!IsConversation(call'.before)
    BY <1>5, NoCallTyped
  <2>2. Code!TypeOK'
    BY <1>1, <1>2, <1>3, <1>5, <2>1 DEF CodeInv, Code!TypeOK
  <2>3. CallInv' /\ InspectedInv' /\ Code!ActivityIsRunning'
    BY <1>1, <1>2, <1>5, <2>1 DEF CodeInv, CallInv, InspectedInv, Code!ActivityIsRunning
  <2>4. QED
    BY <1>3, <2>2, <2>3 DEF CodeInv
<1>6. QED
  BY <1>1, <1>4, <1>5

LEMMA AnalyzedStep ==
    ASSUME CodeInv, Code!Analyzed
    PROVE  CodeInv'
<1>1. /\ call.stage = "analyze" /\ repo' = repo /\ Code!Save
      /\ turns' = Code!Latest(Code!AnsweredTurns([role |-> "assistant", question |-> call.question, repo |-> repo]))
      /\ call' = Code!NoCall /\ codeBusy' = FALSE /\ activity' = Code!StageOver("analyze")
      /\ UNCHANGED <<codeMounted, opening, projects, inspected, asked, reloads>>
  BY DEF Code!Analyzed
<1>2. /\ codeMounted /\ codeBusy /\ ~opening.waits /\ repo \in Repos
      /\ Conversation(call.before, repo) /\ Len(call.before) \in Nat /\ Len(call.before) < TurnLimit + asked
      /\ call.question \in 1..asked /\ call.question \in 1..MaxQuestions /\ asked \in 0..MaxQuestions
      /\ Code!IsConversation(call.before)
  BY <1>1, CallInHand
<1>3. Conversation(turns', repo') /\ Len(turns') <= TurnLimit + asked'
  <2>1. PICK r \in Repos, n \in 1..MaxQuestions : r = repo /\ n = call.question
    BY <1>2
  <2>2. PICK ts : ts = call.before
    OBVIOUS
  <2>3. PICK a : a = [role |-> "assistant", question |-> n, repo |-> r]
    OBVIOUS
  <2>4. PICK us : us = Code!AnsweredTurns(a)
    OBVIOUS
  <2>5. us = Append(Append(ts, [a EXCEPT !.role = "user"]), a) /\ turns' = Code!Latest(us)
    BY <1>1, <2>1, <2>2, <2>3, <2>4 DEF Code!AnsweredTurns
  <2>6. Conversation(us, r)
    BY <1>2, <2>1, <2>2, <2>3, <2>5, AnswerGiven
  <2>7. Conversation(turns', r) /\ Len(turns') <= TurnLimit /\ Len(turns') \in Nat
    BY <2>5, <2>6, LatestTurns
  <2>8. QED
    BY <1>1, <1>2, <2>1, <2>7, CodeConstants
<1>4. TurnsInv' /\ Code!IsConversation(turns') /\ Code!IsConversation(saved'.turns) /\ saved'.repo = repo'
  BY <1>1, <1>2, <1>3, ConversationSaved
<1>5. /\ call'.stage = "idle" /\ call'.question \in 0..MaxQuestions /\ Code!IsConversation(call'.before)
  BY <1>1, NoCallTyped
<1>6. Code!TypeOK'
  BY <1>1, <1>2, <1>4, <1>5 DEF CodeInv, Code!TypeOK, Code!StageOver
<1>7. CallInv' /\ InspectedInv' /\ Code!ActivityIsRunning'
  BY <1>1, <1>2, <1>5 DEF CodeInv, CallInv, InspectedInv, Code!ActivityIsRunning, Code!StageOver
<1>8. QED
  BY <1>4, <1>6, <1>7 DEF CodeInv

LEMMA SubmitFailsStep ==
    ASSUME CodeInv, Code!SubmitFails
    PROVE  CodeInv'
<1>1. /\ call.stage # "idle" /\ call' = Code!NoCall /\ codeBusy' = FALSE
      /\ activity' = Code!StageOver(call.stage)
      /\ inspected' = None \/ inspected' = inspected
      /\ UNCHANGED <<codeMounted, saved, opening, projects, repo, turns, asked, reloads>>
  BY DEF Code!SubmitFails
<1>2. TurnsInv' /\ ~opening.waits /\ codeMounted
  BY <1>1, SameTurns, CallInHand
<1>3. /\ call'.stage = "idle" /\ call'.question \in 0..MaxQuestions /\ Code!IsConversation(call'.before)
  BY <1>1, NoCallTyped
<1>4. Code!TypeOK'
  BY <1>1, <1>3 DEF CodeInv, Code!TypeOK, Code!StageOver
<1>5. CallInv' /\ InspectedInv' /\ Code!ActivityIsRunning'
  BY <1>1, <1>2, <1>3 DEF CodeInv, CallInv, InspectedInv, Code!ActivityIsRunning, Code!StageOver
<1>6. QED
  BY <1>2, <1>4, <1>5 DEF CodeInv

LEMMA NewConversationStep ==
    ASSUME CodeInv, Code!NewConversation
    PROVE  CodeInv'
<1>1. /\ codeMounted /\ ~codeBusy /\ turns' = <<>> /\ inspected' = None /\ activity' = None /\ repo' = repo /\ Code!Save
      /\ UNCHANGED <<codeMounted, opening, projects, codeBusy, call, asked, reloads>>
  BY DEF Code!NewConversation
<1>2. asked' \in 0..MaxQuestions /\ call.stage = "idle"
  BY <1>1 DEF CodeInv, CallInv, Code!TypeOK
<1>3. Conversation(turns', repo') /\ Len(turns') <= TurnLimit + asked'
  <2>1. Conversation(turns', repo') /\ Len(turns') = 0
    BY <1>1, EmptyConversation
  <2>2. PICK n \in 0..MaxQuestions : n = asked'
    BY <1>2
  <2>3. 0 <= TurnLimit + n
    BY CodeConstants
  <2>4. QED
    BY <2>1, <2>2, <2>3
<1>4. TurnsInv' /\ Code!IsConversation(turns') /\ Code!IsConversation(saved'.turns) /\ saved'.repo = repo'
  BY <1>1, <1>2, <1>3, ConversationSaved
<1>5. Code!TypeOK'
  BY <1>1, <1>2, <1>4 DEF CodeInv, Code!TypeOK
<1>6. CallInv' /\ InspectedInv' /\ Code!ActivityIsRunning'
  BY <1>1, <1>2 DEF CodeInv, CallInv, InspectedInv, Code!ActivityIsRunning
<1>7. QED
  BY <1>4, <1>5, <1>6 DEF CodeInv

LEMMA ReloadStep ==
    ASSUME CodeInv, Code!Reload
    PROVE  CodeInv'
<1>1. /\ codeMounted' = FALSE /\ reloads < MaxReloads /\ reloads' = reloads + 1
      /\ opening' = Code!Closed /\ projects' = {}
      /\ repo' = None /\ turns' = <<>> /\ inspected' = None
      /\ codeBusy' = FALSE /\ activity' = None /\ call' = Code!NoCall
      /\ UNCHANGED <<saved, asked>>
  BY DEF Code!Reload
<1>2. asked \in 0..MaxQuestions /\ reloads \in 0..MaxReloads
  BY DEF CodeInv, Code!TypeOK
<1>3. /\ call'.stage = "idle" /\ call'.question \in 0..MaxQuestions /\ Code!IsConversation(call'.before)
  BY <1>1, NoCallTyped
<1>4. Conversation(turns', repo') /\ Len(turns') = 0
  BY <1>1, EmptyConversation
<1>5. Len(turns') <= TurnLimit + asked
  BY <1>2, <1>4, CodeConstants
<1>6. TurnsInv' /\ Code!IsConversation(turns')
  BY <1>1, <1>2, <1>4, <1>5, ConversationTypes DEF CodeInv, TurnsInv
<1>7. Code!TypeOK'
  <2>1. reloads' \in 0..MaxReloads
    BY <1>1, <1>2, CodeConstants
  <2>2. opening' \in [health : {"asked", "ok", "failed"}, stage : 1..5 \cup {0}, waits : BOOLEAN]
    BY <1>1 DEF Code!Closed
  <2>3. saved'.repo \in Repos \cup {None} /\ Code!IsConversation(saved'.turns)
    BY <1>1 DEF CodeInv, Code!TypeOK
  <2>4. QED
    BY <1>1, <1>2, <1>3, <1>6, <2>1, <2>2, <2>3 DEF Code!TypeOK
<1>8. CallInv' /\ InspectedInv' /\ Code!ActivityIsRunning'
  BY <1>1, <1>3 DEF CallInv, InspectedInv, Code!ActivityIsRunning, Code!Closed
<1>9. QED
  BY <1>6, <1>7, <1>8 DEF CodeInv

LEMMA CodeStep ==
    ASSUME CodeInv, [Code!Next]_code
    PROVE  CodeInv'
<1>1. CASE UNCHANGED code
  <2>1. TurnsInv'
    BY <1>1, SameTurns DEF code
  <2>2. Code!TypeOK' /\ CallInv' /\ InspectedInv' /\ Code!ActivityIsRunning'
    BY <1>1 DEF code, CodeInv, Code!TypeOK, CallInv, InspectedInv, Code!ActivityIsRunning
  <2>3. QED
    BY <2>1, <2>2 DEF CodeInv
<1>2. CASE Code!Next
  BY <1>2, MountStep, HealthAnswerStep, HandshakeAnswerStep, SelectProjectStep, SubmitStep, InspectedStep,
     AnalyzedStep, SubmitFailsStep, NewConversationStep, ReloadStep DEF Code!Next, Code!Opening, Code!Answer
<1>3. QED
  BY <1>1, <1>2

LEMMA CodeInit == Code!Init => CodeInv
<1> SUFFICES ASSUME Code!Init PROVE CodeInv
  OBVIOUS
<1>1. /\ turns = <<>> /\ repo = None /\ saved = [repo |-> None, turns |-> <<>>] /\ asked = 0
      /\ opening = Code!Closed /\ projects = {} /\ inspected = None /\ codeMounted = FALSE
      /\ codeBusy = FALSE /\ activity = None /\ call = Code!NoCall /\ reloads = 0
  BY DEF Code!Init
<1>2. Conversation(<<>>, None) /\ Len(<<>>) = 0
  BY EmptyConversation
<1>3. TurnsInv
  BY <1>1, <1>2, CodeConstants DEF TurnsInv
<1>4. Code!IsConversation(<<>>)
  BY CodeConstants DEF Code!IsConversation
<1>5. Code!TypeOK
  <2>1. saved.repo = None /\ saved.turns = <<>>
    BY <1>1
  <2>2. opening \in [health : {"asked", "ok", "failed"}, stage : 1..5 \cup {0}, waits : BOOLEAN]
    BY <1>1 DEF Code!Closed
  <2>3. asked \in 0..MaxQuestions /\ reloads \in 0..MaxReloads
    BY <1>1, CodeConstants
  <2>4. QED
    BY <1>1, <1>4, <2>1, <2>2, <2>3, NoCallTyped DEF Code!TypeOK
<1>6. CallInv /\ InspectedInv /\ Code!ActivityIsRunning
  BY <1>1 DEF CallInv, InspectedInv, Code!ActivityIsRunning, Code!Closed, Code!NoCall
<1>7. QED
  BY <1>3, <1>5, <1>6 DEF CodeInv

\* CodeInv is inductive, on whatever page the tab is.
THEOREM CodeInductive == Spec => []CodeInv
<1>1. Init => CodeInv
  BY CodeInit DEF Init
<1>2. CodeInv /\ [Next]_vars => CodeInv'
  BY CodeStep DEF Next, vars, OverviewPage, OpsPage, CodePage
<1>3. QED
  BY <1>1, <1>2, PTL DEF Spec

\* submit, reconcileConversationProject and the stored conversation: every answer stands
\* behind its question, all turns are about the selected project, which was inspected on
\* this page before its sources were analysed, and no stage that is over is current.
THEOREM ConversationCoherent == Spec => []ConversationIsCoherent
<1>1. CodeInv => ConversationIsCoherent
  <2> SUFFICES ASSUME CodeInv PROVE ConversationIsCoherent
    OBVIOUS
  <2>1. turns \in Seq(Code!Turn) /\ DOMAIN turns = 1..Len(turns)
    BY DEF CodeInv, TurnsInv, Conversation
  <2>2. Code!AnswersFollowQuestions /\ Code!OneProjectPerConversation
    BY <2>1 DEF CodeInv, TurnsInv, Conversation, Follows, Code!AnswersFollowQuestions,
                Code!OneProjectPerConversation
  <2>3. Code!InspectedBeforeAnalysis /\ Code!ActivityIsRunning
    BY DEF CodeInv, CallInv, Code!InspectedBeforeAnalysis
  <2>4. QED
    BY <2>2, <2>3 DEF ConversationIsCoherent
<1>2. QED
  BY <1>1, CodeInductive, PTL

-----------------------------------------------------------------------------
(* The overview page *)

\* The cleanup of its effect leaves active only the request for the dashboard of the URL.
ActiveRequestsFollowURL == \A r \in requests : r.active => r.uid = url

OverviewInv == Overview!TypeOK /\ ActiveRequestsFollowURL /\ Overview!NoSilentFailure

LEMMA OverviewConstants ==
    /\ ServerOf \in [Dashboards -> Servers \cup {None}]
    /\ None \notin Dashboards /\ None \notin Servers
    /\ Retries \in Nat /\ MaxSwitches \in Nat
BY PagesAssumption DEF Overview!OverviewAssumption

LoadType == [Loads -> [server : Servers \cup {None}, attempt : 0..Retries, manual : BOOLEAN]]

\* loadSnapshot of a rendering with a server leaves a call on its way.
LEMMA LoadStarts ==
    ASSUME loads \in LoadType, NEW s \in Servers \cup {None}, NEW manual \in BOOLEAN,
           Overview!LoadSnapshot(s, manual)
    PROVE  /\ loads' \in LoadType
           /\ s # None => Overview!Idle' # Loads
           /\ s = None => loads' = loads
<1>1. CASE s = None
  BY <1>1 DEF Overview!LoadSnapshot
<1>2. CASE s # None
  <2>1. PICK i \in Overview!Idle : loads' = [loads EXCEPT ![i] = [server |-> s, attempt |-> 0, manual |-> manual]]
    BY <1>2 DEF Overview!LoadSnapshot
  <2>2. PICK x : x = [server |-> s, attempt |-> 0, manual |-> manual]
    OBVIOUS
  <2>3. x \in [server : Servers \cup {None}, attempt : 0..Retries, manual : BOOLEAN] /\ x.server = s
    BY <2>2, OverviewConstants
  <2>4. i \in Loads /\ loads' = [loads EXCEPT ![i] = x]
    BY <2>1, <2>2 DEF Overview!Idle
  <2>5. loads' \in LoadType /\ loads'[i] = x
    BY <2>3, <2>4 DEF LoadType
  <2>6. i \notin Overview!Idle'
    BY <1>2, <2>3, <2>5 DEF Overview!Idle
  <2>7. QED
    BY <1>2, <2>4, <2>5, <2>6
<1>3. QED
  BY <1>1, <1>2

\* The requests of the effect on initialUID.
LEMMA ContextRequested ==
    ASSUME requests \subseteq [uid : Dashboards, active : BOOLEAN], NEW uid \in Dashboards \cup {None},
           Overview!LoadContext(uid)
    PROVE  /\ requests' \subseteq [uid : Dashboards, active : BOOLEAN]
           /\ \A r \in requests' : r.active => r.uid = uid
<1>1. SUFFICES ASSUME NEW r \in requests'
               PROVE  r \in [uid : Dashboards, active : BOOLEAN] /\ (r.active => r.uid = uid)
  OBVIOUS
<1>2. CASE r \in {Overview!CleanedUp(q) : q \in requests}
  BY <1>2 DEF Overview!CleanedUp
<1>3. CASE uid # None /\ r = [uid |-> uid, active |-> TRUE]
  BY <1>3
<1>4. QED
  BY <1>2, <1>3 DEF Overview!LoadContext

LEMMA OverviewTypes ==
    ASSUME OverviewInv
    PROVE  /\ overviewMounted \in BOOLEAN /\ url \in Dashboards \cup {None}
           /\ requests \subseteq [uid : Dashboards, active : BOOLEAN]
           /\ context \in [uid : Dashboards \cup {None}, server : Servers \cup {None}]
           /\ loads \in LoadType
           /\ collect \in [pc : {"idle", "status", "collect", "attempt", "sample", "snapshot"},
                           server : Servers \cup {None}]
           /\ shown \in Servers \cup {None}
           /\ error \in {"", "uid", "context", "snapshot", "collect"}
           /\ switches \in 0..MaxSwitches
BY DEF OverviewInv, Overview!TypeOK, LoadType

\* What is left to show for a step that asks for no context.
LEMMA SameContext ==
    ASSUME OverviewInv, UNCHANGED <<overviewMounted, url, context, switches>>, requests' \subseteq requests,
           loads' \in LoadType,
           collect' \in [pc : {"idle", "status", "collect", "attempt", "sample", "snapshot"},
                         server : Servers \cup {None}],
           shown' \in Servers \cup {None},
           error' \in {"", "uid", "context", "snapshot", "collect"},
           Overview!NoSilentFailure'
    PROVE  OverviewInv' /\ (context'.uid # context.uid => context'.uid = url')
<1>1. Overview!TypeOK'
  BY OverviewTypes DEF Overview!TypeOK, LoadType
<1>2. ActiveRequestsFollowURL'
  BY DEF OverviewInv, ActiveRequestsFollowURL
<1>3. QED
  BY <1>1, <1>2 DEF OverviewInv

LEMMA OverviewMountStep ==
    ASSUME OverviewInv, NEW uid \in Dashboards \cup {None}, NEW s \in Servers \cup {None}, Overview!Mount(uid, s)
    PROVE  OverviewInv' /\ (context'.uid # context.uid => context'.uid = url')
<1>1. /\ overviewMounted' = TRUE /\ url' = uid /\ context' = [uid |-> uid, server |-> s]
      /\ error' = (IF uid = None THEN "uid" ELSE "")
      /\ Overview!LoadContext(uid) /\ Overview!LoadSnapshot(s, FALSE)
      /\ UNCHANGED <<collect, shown, switches>>
  BY DEF Overview!Mount
<1>2. /\ requests' \subseteq [uid : Dashboards, active : BOOLEAN]
      /\ \A r \in requests' : r.active => r.uid = uid
  BY <1>1, OverviewTypes, ContextRequested
<1>3. loads' \in LoadType /\ (s # None => Overview!Idle' # Loads)
  BY <1>1, OverviewTypes, LoadStarts
<1>4. Overview!TypeOK'
  BY <1>1, <1>2, <1>3, OverviewTypes DEF Overview!TypeOK, LoadType
<1>5. ActiveRequestsFollowURL'
  BY <1>1, <1>2 DEF ActiveRequestsFollowURL
<1>6. Overview!NoSilentFailure'
  BY <1>1, <1>3 DEF Overview!NoSilentFailure
<1>7. QED
  BY <1>1, <1>4, <1>5, <1>6 DEF OverviewInv

LEMMA SwitchStep ==
    ASSUME OverviewInv, NEW uid \in Dashboards, Overview!Switch(uid)
    PROVE  OverviewInv' /\ (context'.uid # context.uid => context'.uid = url')
<1>1. /\ url' = uid /\ switches < MaxSwitches /\ switches' = switches + 1 /\ Overview!LoadContext(uid)
      /\ UNCHANGED <<overviewMounted, context, loads, collect, shown, error>>
  BY DEF Overview!Switch
<1>2. /\ requests' \subseteq [uid : Dashboards, active : BOOLEAN]
      /\ \A r \in requests' : r.active => r.uid = uid
  BY <1>1, OverviewTypes, ContextRequested
<1>3. switches' \in 0..MaxSwitches
  <2>1. switches < MaxSwitches /\ switches' = switches + 1
    BY <1>1
  <2>2. switches \in 0..MaxSwitches
    BY OverviewTypes
  <2>3. MaxSwitches \in Nat
    BY OverviewConstants
  <2>4. QED
    BY <2>1, <2>2, <2>3
<1>4. Overview!TypeOK'
  BY <1>1, <1>2, <1>3, OverviewTypes DEF Overview!TypeOK, LoadType
<1>5. ActiveRequestsFollowURL'
  BY <1>1, <1>2 DEF ActiveRequestsFollowURL
<1>6. Overview!NoSilentFailure'
  BY <1>1 DEF OverviewInv, Overview!NoSilentFailure, Overview!Idle
<1>7. QED
  BY <1>1, <1>4, <1>5, <1>6 DEF OverviewInv

LEMMA ContextAnswerStep ==
    ASSUME OverviewInv, NEW r \in requests, Overview!ContextAnswer(r)
    PROVE  OverviewInv' /\ (context'.uid # context.uid => context'.uid = url')
<1>1. /\ requests' = requests \ {r}
      /\ UNCHANGED <<overviewMounted, url, collect, shown, error, switches>>
  BY DEF Overview!ContextAnswer
<1>2. CASE ~r.active /\ UNCHANGED <<context, loads>>
  <2>1. Overview!NoSilentFailure'
    BY <1>1, <1>2 DEF OverviewInv, Overview!NoSilentFailure, Overview!Idle
  <2>2. QED
    BY <1>1, <1>2, <2>1, OverviewTypes, SameContext
<1>3. CASE r.active
  <2>1. PICK s : s = ServerOf[r.uid]
    OBVIOUS
  <2>2. /\ context' = [uid |-> r.uid, server |-> s]
        /\ \/ s # context.server /\ Overview!LoadSnapshot(s, FALSE)
           \/ s = context.server /\ UNCHANGED loads
    <3>1. /\ context' = [uid |-> r.uid, server |-> s]
          /\ IF context'.server # context.server
             THEN Overview!LoadSnapshot(context'.server, FALSE)
             ELSE UNCHANGED loads
      BY <1>3, <2>1 DEF Overview!ContextAnswer
    <3>2. context'.server = s
      BY <3>1
    <3>3. CASE s = context.server
      BY <3>1, <3>2, <3>3
    <3>4. CASE s # context.server
      <4>1. Overview!LoadSnapshot(context'.server, FALSE)
        BY <3>1, <3>2, <3>4
      <4>2. Overview!LoadSnapshot(s, FALSE)
        BY <3>2, <4>1 DEF Overview!LoadSnapshot
      <4>3. QED
        BY <3>1, <3>4, <4>2
    <3>5. QED
      BY <3>3, <3>4
  <2>3. r.uid \in Dashboards /\ s \in Servers \cup {None} /\ r.uid = url
    BY <1>3, <2>1, OverviewTypes, OverviewConstants DEF OverviewInv, ActiveRequestsFollowURL
  <2>4. loads' \in LoadType /\ Overview!NoSilentFailure'
    <3>1. CASE s # context.server /\ Overview!LoadSnapshot(s, FALSE)
      <4>1. loads' \in LoadType /\ (s # None => Overview!Idle' # Loads)
        BY <2>3, <3>1, OverviewTypes, LoadStarts
      <4>2. QED
        BY <2>2, <4>1 DEF Overview!NoSilentFailure
    <3>2. CASE s = context.server /\ UNCHANGED loads
      BY <1>1, <2>2, <3>2, OverviewTypes DEF OverviewInv, Overview!NoSilentFailure, Overview!Idle
    <3>3. QED
      BY <2>2, <3>1, <3>2
  <2>5. Overview!TypeOK'
    BY <1>1, <2>2, <2>3, <2>4, OverviewTypes DEF Overview!TypeOK, LoadType
  <2>6. ActiveRequestsFollowURL'
    BY <1>1 DEF OverviewInv, ActiveRequestsFollowURL
  <2>7. QED
    BY <1>1, <2>2, <2>3, <2>4, <2>5, <2>6 DEF OverviewInv
<1>4. QED
  BY <1>2, <1>3 DEF Overview!ContextAnswer

LEMMA LoadStep ==
    ASSUME OverviewInv, NEW l \in Loads, Overview!Load(l)
    PROVE  OverviewInv' /\ (context'.uid # context.uid => context'.uid = url')
<1>1. UNCHANGED <<overviewMounted, url, requests, context, switches>> /\ loads[l].server # None
  BY DEF Overview!Load, Overview!Snapshot, Overview!Retry, Overview!SnapshotFails
<1>2. CASE Overview!Retry(l)
  <2>1. /\ loads[l].attempt < Retries /\ loads' = [loads EXCEPT ![l].attempt = @ + 1]
        /\ UNCHANGED <<collect, shown, error>>
    BY <1>2 DEF Overview!Retry, Overview!HasDelay
  <2>2. loads' \in LoadType /\ \A m \in Loads : loads'[m].server = loads[m].server
    <3>1. loads \in LoadType
      BY OverviewTypes
    <3>2. PICK x : x = [loads[l] EXCEPT !.attempt = @ + 1]
      OBVIOUS
    <3>3. Retries \in Nat
      BY OverviewConstants
    <3>4. x \in [server : Servers \cup {None}, attempt : 0..Retries, manual : BOOLEAN] /\ x.server = loads[l].server
      BY <2>1, <3>1, <3>2, <3>3 DEF LoadType
    <3>5. loads' = [loads EXCEPT ![l] = x]
      BY <2>1, <3>2
    <3>6. QED
      BY <3>1, <3>4, <3>5 DEF LoadType
  <2>3. Overview!NoSilentFailure'
    BY <1>1, <2>1, <2>2 DEF OverviewInv, Overview!NoSilentFailure, Overview!Idle
  <2>4. QED
    BY <1>1, <2>1, <2>2, <2>3, OverviewTypes, SameContext
<1>3. CASE Overview!Snapshot(l) \/ Overview!SnapshotFails(l)
  <2>1. /\ loads' = [loads EXCEPT ![l] = Overview!NoLoad]
        /\ collect' = Overview!NoCollect \/ collect' = collect
        /\ \/ shown' = loads[l].server /\ error' = ""
           \/ shown' = shown /\ error' = "snapshot"
    BY <1>3 DEF Overview!Snapshot, Overview!SnapshotFails, Overview!Return
  <2>2. loads' \in LoadType
    <3>1. Overview!NoLoad \in [server : Servers \cup {None}, attempt : 0..Retries, manual : BOOLEAN]
      BY OverviewConstants DEF Overview!NoLoad
    <3>2. QED
      BY <2>1, <3>1, OverviewTypes DEF LoadType
  <2>3. collect' \in [pc : {"idle", "status", "collect", "attempt", "sample", "snapshot"},
                      server : Servers \cup {None}]
    <3>1. collect \in [pc : {"idle", "status", "collect", "attempt", "sample", "snapshot"},
                       server : Servers \cup {None}]
      BY OverviewTypes
    <3>2. Overview!NoCollect \in [pc : {"idle", "status", "collect", "attempt", "sample", "snapshot"},
                                  server : Servers \cup {None}]
      BY DEF Overview!NoCollect
    <3>3. QED
      BY <2>1, <3>1, <3>2
  <2>4. shown' \in Servers \cup {None} /\ error' \in {"", "snapshot"} /\ (error' = "" => shown' # None)
    BY <1>1, <2>1, OverviewTypes DEF LoadType
  <2>5. Overview!NoSilentFailure'
    BY <2>4 DEF Overview!NoSilentFailure
  <2>6. QED
    BY <1>1, <2>2, <2>3, <2>4, <2>5, SameContext
<1>4. QED
  BY <1>2, <1>3 DEF Overview!Load

LEMMA CollectStep ==
    ASSUME OverviewInv, Overview!CollectNow \/ Overview!CollectProceeds \/ Overview!CollectFails
    PROVE  OverviewInv' /\ (context'.uid # context.uid => context'.uid = url')
<1>1. UNCHANGED <<overviewMounted, url, requests, context, shown, switches>>
  BY DEF Overview!CollectNow, Overview!CollectProceeds, Overview!CollectFails
<1>2. CASE Overview!CollectNow
  <2>1. collect' = [pc |-> "status", server |-> context.server] /\ error' = "" /\ loads' = loads
    BY <1>2 DEF Overview!CollectNow
  <2>2. Overview!NoSilentFailure'
    BY <2>1 DEF Overview!NoSilentFailure
  <2>3. QED
    BY <1>1, <2>1, <2>2, OverviewTypes, SameContext
<1>3. CASE Overview!CollectProceeds
  <2>1. PICK pc \in {"collect", "attempt", "sample", "snapshot"} :
               /\ collect' = [collect EXCEPT !.pc = pc] /\ error' = error
               /\ \/ Overview!LoadSnapshot(collect.server, TRUE)
                  \/ UNCHANGED loads
    <3>1. /\ Overview!Following[collect.pc] \in {"collect", "attempt", "sample", "snapshot"}
          /\ collect' = [collect EXCEPT !.pc = Overview!Following[collect.pc]]
      BY <1>3 DEF Overview!CollectProceeds, Overview!Following
    <3>2. QED
      BY <1>3, <3>1 DEF Overview!CollectProceeds
  <2>2. /\ collect' \in [pc : {"idle", "status", "collect", "attempt", "sample", "snapshot"},
                         server : Servers \cup {None}]
        /\ collect'.pc # "idle"
    BY <2>1, OverviewTypes
  <2>3. loads' \in LoadType
    <3>1. PICK s \in Servers \cup {None} : s = collect.server
      BY OverviewTypes
    <3>2. Overview!LoadSnapshot(s, TRUE) \/ UNCHANGED loads
      BY <2>1, <3>1
    <3>3. QED
      BY <3>2, OverviewTypes, LoadStarts
  <2>4. Overview!NoSilentFailure'
    BY <2>2 DEF Overview!NoSilentFailure
  <2>5. QED
    BY <1>1, <2>1, <2>2, <2>3, <2>4, OverviewTypes, SameContext
<1>4. CASE Overview!CollectFails
  <2>1. error' = "collect" /\ collect' = Overview!NoCollect /\ loads' = loads
    BY <1>4 DEF Overview!CollectFails, Overview!AfterFailure
  <2>2. collect' \in [pc : {"idle", "status", "collect", "attempt", "sample", "snapshot"},
                      server : Servers \cup {None}]
    BY <2>1 DEF Overview!NoCollect
  <2>3. Overview!NoSilentFailure'
    BY <2>1 DEF Overview!NoSilentFailure
  <2>4. QED
    BY <1>1, <2>1, <2>2, <2>3, OverviewTypes, SameContext
<1>5. QED
  BY <1>2, <1>3, <1>4

LEMMA OverviewStep ==
    ASSUME OverviewInv, [Overview!Next]_overview
    PROVE  OverviewInv' /\ (context'.uid # context.uid => context'.uid = url')
<1>1. CASE UNCHANGED overview
  <2>1. UNCHANGED <<overviewMounted, url, requests, context, loads, collect, shown, error, switches>>
    BY <1>1 DEF overview
  <2>2. Overview!NoSilentFailure'
    BY <2>1 DEF OverviewInv, Overview!NoSilentFailure, Overview!Idle
  <2>3. QED
    BY <2>1, <2>2, OverviewTypes, SameContext
<1>2. ASSUME NEW r \in requests, Overview!ContextFails(r)
      PROVE  OverviewInv' /\ (context'.uid # context.uid => context'.uid = url')
  <2>1. /\ requests' = requests \ {r} /\ error' \in {error, "context"}
        /\ UNCHANGED <<overviewMounted, url, context, loads, collect, shown, switches>>
    BY <1>2 DEF Overview!ContextFails
  <2>2. Overview!NoSilentFailure'
    BY <2>1 DEF OverviewInv, Overview!NoSilentFailure, Overview!Idle
  <2>3. QED
    BY <2>1, <2>2, OverviewTypes, SameContext
<1>3. CASE Overview!Interval
  <2>1. /\ context.server # None /\ Overview!LoadSnapshot(context.server, FALSE)
        /\ UNCHANGED <<overviewMounted, url, requests, context, collect, shown, error, switches>>
    BY <1>3 DEF Overview!Interval, Overview!IntervalServer
  <2>2. PICK s \in Servers \cup {None} : s = context.server
    BY OverviewTypes
  <2>3. loads' \in LoadType /\ Overview!Idle' # Loads
    BY <2>1, <2>2, OverviewTypes, LoadStarts
  <2>4. Overview!NoSilentFailure'
    BY <2>3 DEF Overview!NoSilentFailure
  <2>5. QED
    BY <2>1, <2>3, <2>4, OverviewTypes, SameContext
<1>4. CASE Overview!Next
  BY <1>2, <1>3, <1>4, OverviewMountStep, SwitchStep, ContextAnswerStep, LoadStep, CollectStep DEF Overview!Next
<1>5. QED
  BY <1>1, <1>4

LEMMA OverviewInit == Overview!Init => OverviewInv
<1> SUFFICES ASSUME Overview!Init PROVE OverviewInv
  OBVIOUS
<1>1. Overview!NoLoad \in [server : Servers \cup {None}, attempt : 0..Retries, manual : BOOLEAN]
  BY OverviewConstants DEF Overview!NoLoad
<1>2. loads \in [Loads -> [server : Servers \cup {None}, attempt : 0..Retries, manual : BOOLEAN]]
  BY <1>1 DEF Overview!Init
<1>3. switches \in 0..MaxSwitches
  <2>1. switches = 0
    BY DEF Overview!Init
  <2>2. MaxSwitches \in Nat
    BY OverviewConstants
  <2>3. QED
    BY <2>1, <2>2
<1>4. Overview!TypeOK
  BY <1>2, <1>3 DEF Overview!Init, Overview!TypeOK, Overview!NoCollect
<1>5. ActiveRequestsFollowURL /\ Overview!NoSilentFailure
  BY DEF Overview!Init, ActiveRequestsFollowURL, Overview!NoSilentFailure
<1>6. QED
  BY <1>4, <1>5 DEF OverviewInv

\* OverviewInv is inductive, on whatever page the tab is.
THEOREM OverviewInductive == Spec => []OverviewInv
<1>1. Init => OverviewInv
  BY OverviewInit DEF Init
<1>2. OverviewInv /\ [Next]_vars => OverviewInv'
  BY OverviewStep DEF Next, vars, OverviewPage, OpsPage, CodePage
<1>3. QED
  BY <1>1, <1>2, PTL DEF Spec

\* loadContext with the cleanup of its effect: an answer for a dashboard that was left never
\* becomes the context of the page.
THEOREM ContextFollows == Spec => Overview!ContextFollowsURL
<1>1. OverviewInv /\ [Next]_vars => [context'.uid # context.uid => context'.uid = url']_(Overview!vars)
  BY OverviewStep DEF Next, vars, overview, OverviewPage, OpsPage, CodePage, Overview!vars
<1>2. QED
  BY <1>1, OverviewInductive, PTL DEF Spec, Overview!ContextFollowsURL

\* loadSnapshot and collectNow: a page that neither loads nor collects shows data or says
\* why it does not.
THEOREM FailuresAreShown == Spec => []Overview!NoSilentFailure
<1>1. OverviewInv => Overview!NoSilentFailure
  BY DEF OverviewInv
<1>2. QED
  BY <1>1, OverviewInductive, PTL

-----------------------------------------------------------------------------
(* The page of the operations agent *)

\* A task that is shown, or on its way to the page, is one the agent knows.
Known(x) == x.id # None => agent[x.id] # Ops!Unknown

\* What the page holds of tasks.
HeldInv ==
    /\ Known(task) /\ \A r \in replies : Known(r.task)
    /\ post.kind = "decision" \/ post.answered => post.task.id # None /\ Known(post.task)
    /\ post.answered => post.task.seen.status = "running"
    /\ post.kind = "none" => ~post.answered

\* The restoring effect of a task just started may ask when the timer may not; then the page
\* follows the new task, and starts no other before this one has ended.
RepliesInv ==
    /\ IsFiniteSet(replies)
    /\ \/ Cardinality(replies) <= MaxReplies
       \/ task.seen.status \in Ops!Followed /\ post.kind # "start"

\* Nothing is on its way before the page is opened.
ClosedInv == ~opsMounted => /\ replies = {} /\ task = Ops!NoTask /\ post = Ops!NoPost
                            /\ ~catalog /\ ~server

OpsInv == Ops!TypeOK /\ HeldInv /\ RepliesInv /\ ClosedInv

LEMMA OpsConstants ==
    /\ None \notin Tasks /\ Earlier \subseteq Tasks /\ Slow \subseteq Tasks
    /\ MaxCalls \in Nat /\ MaxReplies \in Nat /\ MaxReplies > 0
BY PagesAssumption DEF Ops!AgentPageAssumption

\* Each instance of FiniteSets has a Cardinality, the same one.
LEMMA SameCardinality == \A S : Ops!Cardinality(S) = Cardinality(S)
BY Zenon DEF Ops!Cardinality, Cardinality

LEMMA OpsTypes ==
    ASSUME Ops!TypeOK
    PROVE  /\ opsMounted \in BOOLEAN /\ catalog \in BOOLEAN /\ server \in BOOLEAN /\ opsBusy \in BOOLEAN
           /\ urlTask \in Tasks \cup {None} /\ task \in Ops!Shown
           /\ post \in [kind : {"none", "start", "decision"}, task : Ops!Shown, answered : BOOLEAN]
           /\ replies \subseteq [task : Ops!Shown, cause : Ops!Causes]
           /\ Cardinality(replies) <= MaxReplies + 1
           /\ agent \in [Tasks -> Ops!Seen \cup {Ops!Unknown}] /\ expired \subseteq Slow
BY SameCardinality DEF Ops!TypeOK

\* What is shown is a task, with a status the agent gives, or nothing.
LEMMA ShownCases ==
    ASSUME NEW x \in Ops!Shown
    PROVE  \/ x = Ops!NoTask /\ x.id = None /\ x.seen.status = "none"
           \/ x.id \in Tasks /\ x.id # None /\ x.seen \in Ops!Seen
<1>1. CASE x = Ops!NoTask
  BY <1>1 DEF Ops!NoTask, Ops!Unknown
<1>2. CASE x \in [id : Tasks, seen : Ops!Seen]
  BY <1>2, OpsConstants
<1>3. QED
  BY <1>1, <1>2 DEF Ops!Shown

\* A snapshot of a task that the agent knows can be shown.
LEMMA SnapshotShown ==
    ASSUME agent \in [Tasks -> Ops!Seen \cup {Ops!Unknown}], NEW t \in Tasks, agent[t] # Ops!Unknown
    PROVE  /\ Ops!Snapshot(t) \in Ops!Shown /\ Ops!Snapshot(t).id = t /\ Ops!Snapshot(t).seen = agent[t]
           /\ Known(Ops!Snapshot(t))
<1>1. PICK s \in Ops!Seen : s = agent[t]
  OBVIOUS
<1>2. PICK x : x = [id |-> t, seen |-> s]
  OBVIOUS
<1>3. x \in Ops!Shown /\ x.id = t /\ x.seen = s
  BY <1>2 DEF Ops!Shown
<1>4. Ops!Snapshot(t) = x
  BY <1>1, <1>2 DEF Ops!Snapshot
<1>5. Known(x)
  BY <1>3 DEF Known
<1>6. QED
  BY <1>1, <1>3, <1>4, <1>5

\* The cleanup of the restoring effect: no answer gets lost, none is added.
LEMMA CleanedReplies ==
    ASSUME replies \subseteq [task : Ops!Shown, cause : Ops!Causes], IsFiniteSet(replies)
    PROVE  LET cleaned == {IF r.cause = "restore" THEN [r EXCEPT !.cause = "follow"] ELSE r : r \in replies}
           IN  /\ cleaned \subseteq [task : Ops!Shown, cause : Ops!Causes]
               /\ IsFiniteSet(cleaned) /\ Cardinality(cleaned) <= Cardinality(replies)
               /\ \A r \in cleaned : \E q \in replies : r.task = q.task
<1>1. PICK S : S = replies
  OBVIOUS
<1>2. PICK f : f = [r \in S |-> IF r.cause = "restore" THEN [r EXCEPT !.cause = "follow"] ELSE r]
  OBVIOUS
<1>3. PICK T : T = {IF r.cause = "restore" THEN [r EXCEPT !.cause = "follow"] ELSE r : r \in S}
  OBVIOUS
<1>4. f \in Surjection(S, T)
  <2>1. f \in [S -> T]
    BY <1>2, <1>3
  <2>2. \A y \in T : \E r \in S : f[r] = y
    BY <1>2, <1>3
  <2>3. QED
    BY <2>1, <2>2 DEF Surjection
<1>5. IsFiniteSet(T) /\ Cardinality(T) <= Cardinality(S)
  BY <1>1, <1>4, FS_Surjection
<1>6. ASSUME NEW y \in T
      PROVE  y \in [task : Ops!Shown, cause : Ops!Causes] /\ \E q \in S : y.task = q.task
  <2>1. PICK r \in S : y = IF r.cause = "restore" THEN [r EXCEPT !.cause = "follow"] ELSE r
    BY <1>3
  <2>2. r \in [task : Ops!Shown, cause : Ops!Causes]
    BY <1>1
  <2>3. y \in [task : Ops!Shown, cause : Ops!Causes] /\ y.task = r.task
    BY <2>1, <2>2 DEF Ops!Causes
  <2>4. QED
    BY <2>3
<1>7. QED
  BY <1>1, <1>3, <1>5, <1>6

\* The restoring effect asks once, for a task the agent knows.
LEMMA Restored ==
    ASSUME Ops!TypeOK, IsFiniteSet(replies), \A r \in replies : Known(r.task),
           NEW t \in Tasks \cup {None}, Ops!RestoreEffect(t)
    PROVE  /\ replies' \subseteq [task : Ops!Shown, cause : Ops!Causes]
           /\ IsFiniteSet(replies') /\ Cardinality(replies') <= Cardinality(replies) + 1
           /\ t = None => Cardinality(replies') <= Cardinality(replies)
           /\ \A r \in replies' : Known(r.task)
           /\ Cardinality(replies') \in Nat /\ Cardinality(replies) \in Nat
<1>1. PICK C : C = {IF r.cause = "restore" THEN [r EXCEPT !.cause = "follow"] ELSE r : r \in replies}
  OBVIOUS
<1>2. /\ C \subseteq [task : Ops!Shown, cause : Ops!Causes]
      /\ IsFiniteSet(C) /\ Cardinality(C) <= Cardinality(replies)
      /\ \A r \in C : \E q \in replies : r.task = q.task
  BY <1>1, OpsTypes, CleanedReplies
<1>3. \A r \in C : Known(r.task)
  BY <1>2 DEF Known
<1>4. Cardinality(replies) \in Nat /\ Cardinality(C) \in Nat
  BY <1>2, FS_CardinalityType
<1>5. CASE replies' = C
  BY <1>2, <1>3, <1>4, <1>5
<1>6. CASE t \in Tasks /\ agent[t] # Ops!Unknown /\ replies' = C \cup {[task |-> Ops!Snapshot(t), cause |-> "restore"]}
  <2>1. PICK x : x = [task |-> Ops!Snapshot(t), cause |-> "restore"]
    OBVIOUS
  <2>2. Ops!Snapshot(t) \in Ops!Shown /\ Known(Ops!Snapshot(t))
    BY <1>6, OpsTypes, SnapshotShown
  <2>3. x \in [task : Ops!Shown, cause : Ops!Causes] /\ x.task = Ops!Snapshot(t)
    BY <2>1, <2>2 DEF Ops!Causes
  <2>4. replies' = C \cup {x}
    BY <1>6, <2>1
  <2>5. IsFiniteSet(C \cup {x}) /\ Cardinality(C \cup {x}) \in {Cardinality(C), Cardinality(C) + 1}
    BY <1>2, FS_AddElement
  <2>6. /\ IsFiniteSet(replies') /\ Cardinality(replies') <= Cardinality(replies) + 1
        /\ Cardinality(replies') \in Nat
    BY <1>2, <1>4, <2>4, <2>5
  <2>7. \A r \in replies' : Known(r.task)
    BY <1>3, <2>2, <2>3, <2>4
  <2>8. replies' \subseteq [task : Ops!Shown, cause : Ops!Causes]
    BY <1>2, <2>3, <2>4
  <2>9. t # None
    BY <1>6, OpsConstants
  <2>10. QED
    BY <1>4, <2>6, <2>7, <2>8, <2>9
<1>7. replies' = C \/ (t \in Tasks /\ agent[t] # Ops!Unknown
                         /\ replies' = C \cup {[task |-> Ops!Snapshot(t), cause |-> "restore"]})
  BY <1>1 DEF Ops!RestoreEffect
<1>8. QED
  BY <1>5, <1>6, <1>7

\* An answer that arrived or got lost is no longer on its way.
LEMMA ReplyGone ==
    ASSUME OpsInv, NEW r \in replies, replies' = replies \ {r}
    PROVE  /\ replies' \subseteq [task : Ops!Shown, cause : Ops!Causes]
           /\ IsFiniteSet(replies') /\ Cardinality(replies') <= MaxReplies /\ replies # {}
           /\ r.task \in Ops!Shown
<1>1. IsFiniteSet(replies) /\ Cardinality(replies) <= MaxReplies + 1
  BY SameCardinality DEF OpsInv, Ops!TypeOK, RepliesInv
<1>2. IsFiniteSet(replies \ {r}) /\ Cardinality(replies \ {r}) = Cardinality(replies) - 1
  BY <1>1, FS_RemoveElement
<1>3. Cardinality(replies) \in Nat
  BY <1>1, FS_CardinalityType
<1>4. Cardinality(replies') <= MaxReplies
  <2>1. MaxReplies \in Nat
    BY OpsConstants
  <2>2. Cardinality(replies') = Cardinality(replies) - 1
    BY <1>2
  <2>3. QED
    BY <1>1, <1>3, <2>1, <2>2
<1>5. replies \subseteq [task : Ops!Shown, cause : Ops!Causes]
  BY DEF OpsInv, Ops!TypeOK
<1>6. QED
  BY <1>2, <1>4, <1>5

\* What is left to show of a step that leaves the agent alone.
LEMMA SameAgent ==
    ASSUME OpsInv, agent' = agent, expired' = expired,
           opsMounted' \in BOOLEAN, catalog' \in BOOLEAN, server' \in BOOLEAN, opsBusy' \in BOOLEAN,
           urlTask' \in Tasks \cup {None}, task' \in Ops!Shown,
           post' \in [kind : {"none", "start", "decision"}, task : Ops!Shown, answered : BOOLEAN],
           replies' \subseteq [task : Ops!Shown, cause : Ops!Causes], IsFiniteSet(replies'),
           Known(task)', \A r \in replies' : Known(r.task),
           post'.kind = "decision" \/ post'.answered => post'.task.id # None /\ Known(post'.task),
           post'.answered => post'.task.seen.status = "running",
           post'.kind = "none" => ~post'.answered,
           Cardinality(replies') <= MaxReplies + 1,
           Cardinality(replies') <= MaxReplies \/ (task'.seen.status \in Ops!Followed /\ post'.kind # "start"),
           ClosedInv'
    PROVE  OpsInv'
<1>1. Ops!TypeOK'
  <2>1. Ops!Cardinality(replies') <= MaxReplies + 1
    BY SameCardinality
  <2>2. agent' \in [Tasks -> Ops!Seen \cup {Ops!Unknown}] /\ expired' \subseteq Slow
    BY DEF OpsInv, Ops!TypeOK
  <2>3. QED
    BY <2>1, <2>2 DEF Ops!TypeOK
<1>2. HeldInv'
  <2>1. \A r \in replies' : Known(r.task)'
    BY DEF Known
  <2>2. post'.kind = "decision" \/ post'.answered => Known(post.task)'
    BY DEF Known
  <2>3. QED
    BY <2>1, <2>2 DEF HeldInv
<1>3. RepliesInv'
  BY DEF RepliesInv
<1>4. QED
  BY <1>1, <1>2, <1>3 DEF OpsInv

LEMMA OpsHeld ==
    ASSUME OpsInv
    PROVE  /\ Ops!TypeOK /\ IsFiniteSet(replies) /\ Cardinality(replies) \in Nat
           /\ Known(task) /\ \A r \in replies : Known(r.task)
           /\ post.kind = "decision" \/ post.answered => post.task.id # None /\ Known(post.task)
           /\ post.answered => post.task.seen.status = "running"
           /\ post.kind = "none" => ~post.answered
           /\ Cardinality(replies) <= MaxReplies \/ (task.seen.status \in Ops!Followed /\ post.kind # "start")
           /\ ~opsMounted => replies = {} /\ task = Ops!NoTask /\ post = Ops!NoPost /\ ~catalog /\ ~server
<1>1. IsFiniteSet(replies) /\ Cardinality(replies) \in Nat
  BY FS_CardinalityType DEF OpsInv, RepliesInv
<1>2. QED
  BY <1>1 DEF OpsInv, HeldInv, RepliesInv, ClosedInv

LEMMA OpsMountStep ==
    ASSUME OpsInv, NEW t \in Earlier \cup {None}, Ops!Mount(t)
    PROVE  OpsInv'
<1>1. /\ ~opsMounted /\ opsMounted' = TRUE /\ urlTask' = t /\ Ops!RestoreEffect(t)
      /\ UNCHANGED <<catalog, server, task, opsBusy, post, agent, expired>>
  BY DEF Ops!Mount
<1>2. t \in Tasks \cup {None}
  BY OpsConstants
<1>3. /\ replies' \subseteq [task : Ops!Shown, cause : Ops!Causes]
      /\ IsFiniteSet(replies') /\ Cardinality(replies') <= Cardinality(replies) + 1
      /\ \A r \in replies' : Known(r.task)
  BY <1>1, <1>2, OpsHeld, Restored
<1>4. Cardinality(replies') <= MaxReplies
  <2>1. replies = {}
    BY <1>1, OpsHeld
  <2>2. Cardinality(replies) = 0
    BY <2>1, FS_EmptySet
  <2>3. MaxReplies \in Nat /\ MaxReplies > 0
    BY OpsConstants
  <2>4. Cardinality(replies') \in Nat
    BY <1>3, FS_CardinalityType
  <2>5. QED
    BY <1>3, <2>2, <2>3, <2>4
<1>5. Cardinality(replies') <= MaxReplies + 1
  <2>1. MaxReplies \in Nat /\ Cardinality(replies') \in Nat
    BY <1>3, OpsConstants, FS_CardinalityType
  <2>2. QED
    BY <1>4, <2>1
<1>6. Known(task)' /\ ClosedInv'
  BY <1>1, OpsHeld DEF Known, ClosedInv
<1>7. QED
  BY <1>1, <1>2, <1>3, <1>4, <1>5, <1>6, OpsHeld, OpsTypes, SameAgent

\* The lists arrive, and a server is selected.
LEMMA SelectStep ==
    ASSUME OpsInv, Ops!Catalog \/ Ops!SelectServer
    PROVE  OpsInv'
<1>1. /\ catalog' \in BOOLEAN /\ server' \in BOOLEAN
      /\ UNCHANGED <<opsMounted, urlTask, task, opsBusy, post, replies, agent, expired>>
  BY OpsHeld, OpsTypes DEF Ops!Catalog, Ops!SelectServer
<1>2. opsMounted
  BY OpsHeld DEF Ops!Catalog, Ops!SelectServer
<1>3. Known(task)' /\ ClosedInv'
  BY <1>1, <1>2, OpsHeld DEF Known, ClosedInv
<1>4. QED
  BY <1>1, <1>3, OpsHeld, OpsTypes, SameAgent

LEMMA AskStep ==
    ASSUME OpsInv, Ops!Ask
    PROVE  OpsInv'
<1>1. /\ task.id # None /\ Cardinality(replies) < MaxReplies
      /\ replies' = replies \cup {[task |-> Ops!Snapshot(task.id), cause |-> "follow"]}
      /\ UNCHANGED <<opsMounted, urlTask, catalog, server, task, opsBusy, post, agent, expired>>
  BY SameCardinality DEF Ops!Ask, Ops!page
<1>2. PICK t \in Tasks : t = task.id
  <2>1. task \in Ops!Shown
    BY OpsHeld, OpsTypes
  <2>2. QED
    BY <1>1, <2>1, ShownCases
<1>3. agent[t] # Ops!Unknown
  BY <1>1, <1>2, OpsHeld DEF Known
<1>4. Ops!Snapshot(t) \in Ops!Shown /\ Known(Ops!Snapshot(t))
  BY <1>3, OpsHeld, OpsTypes, SnapshotShown
<1>5. PICK x : x = [task |-> Ops!Snapshot(t), cause |-> "follow"]
  OBVIOUS
<1>6. x \in [task : Ops!Shown, cause : Ops!Causes] /\ x.task = Ops!Snapshot(t)
  BY <1>4, <1>5 DEF Ops!Causes
<1>7. replies' = replies \cup {x}
  BY <1>1, <1>2, <1>5
<1>8. replies' \subseteq [task : Ops!Shown, cause : Ops!Causes] /\ \A r \in replies' : Known(r.task)
  BY <1>4, <1>6, <1>7, OpsHeld, OpsTypes
<1>9. IsFiniteSet(replies') /\ Cardinality(replies') <= MaxReplies /\ Cardinality(replies') <= MaxReplies + 1
  <2>1. IsFiniteSet(replies \cup {x}) /\ Cardinality(replies \cup {x}) \in {Cardinality(replies), Cardinality(replies) + 1}
    BY OpsHeld, FS_AddElement
  <2>2. MaxReplies \in Nat /\ Cardinality(replies) \in Nat
    BY OpsConstants, OpsHeld
  <2>3. QED
    BY <1>1, <1>7, <2>1, <2>2
<1>10. opsMounted
  BY <1>1, OpsHeld DEF Ops!NoTask
<1>11. Known(task)' /\ ClosedInv'
  BY <1>1, <1>10, OpsHeld DEF Known, ClosedInv
<1>12. QED
  BY <1>1, <1>8, <1>9, <1>11, OpsHeld, OpsTypes, SameAgent

\* An answer arrives or its request fails.
LEMMA ReplyStep ==
    ASSUME OpsInv, NEW r \in replies, Ops!Arrive(r) \/ Ops!Lost(r)
    PROVE  OpsInv'
<1>1. /\ replies' = replies \ {r} /\ task' \in {task, r.task} /\ urlTask' \in {urlTask, None}
      /\ UNCHANGED <<opsMounted, catalog, server, opsBusy, post, agent, expired>>
  BY DEF Ops!Arrive, Ops!Lost
<1>2. /\ replies' \subseteq [task : Ops!Shown, cause : Ops!Causes]
      /\ IsFiniteSet(replies') /\ Cardinality(replies') <= MaxReplies /\ replies # {}
      /\ r.task \in Ops!Shown
  BY <1>1, ReplyGone
<1>3. Cardinality(replies') <= MaxReplies + 1
  <2>1. MaxReplies \in Nat /\ Cardinality(replies') \in Nat
    BY <1>2, OpsConstants, FS_CardinalityType
  <2>2. QED
    BY <1>2, <2>1
<1>4. task' \in Ops!Shown /\ urlTask' \in Tasks \cup {None}
  BY <1>1, <1>2, OpsHeld, OpsTypes
<1>5. Known(task)' /\ ClosedInv'
  BY <1>1, <1>2, OpsHeld DEF Known, ClosedInv
<1>6. \A q \in replies' : Known(q.task)
  BY <1>1, OpsHeld
<1>7. QED
  BY <1>1, <1>2, <1>3, <1>4, <1>5, <1>6, OpsHeld, OpsTypes, SameAgent

LEMMA NoPostTyped ==
    /\ Ops!NoPost \in [kind : {"none", "start", "decision"}, task : Ops!Shown, answered : BOOLEAN]
    /\ Ops!NoPost.kind = "none" /\ ~Ops!NoPost.answered
BY DEF Ops!NoPost, Ops!Shown

\* A task is started only where none is shown, so the page follows none.
LEMMA StartStep ==
    ASSUME OpsInv, Ops!Start
    PROVE  OpsInv'
<1>1. /\ task = Ops!NoTask /\ server /\ opsBusy' = TRUE /\ post' = [Ops!NoPost EXCEPT !.kind = "start"]
      /\ UNCHANGED <<opsMounted, urlTask, catalog, server, task, replies, agent, expired>>
  BY DEF Ops!Start
<1>2. /\ post' \in [kind : {"none", "start", "decision"}, task : Ops!Shown, answered : BOOLEAN]
      /\ post'.kind = "start" /\ ~post'.answered
  BY <1>1, NoPostTyped
<1>3. Cardinality(replies) <= MaxReplies
  BY <1>1, OpsHeld DEF Ops!NoTask, Ops!Unknown, Ops!Followed
<1>4. opsMounted
  BY <1>1, OpsHeld
<1>5. Known(task)' /\ ClosedInv'
  BY <1>1, <1>4, OpsHeld DEF Known, ClosedInv
<1>6. QED
  BY <1>1, <1>2, <1>3, <1>5, OpsHeld, OpsTypes, SameAgent

LEMMA DecideStep ==
    ASSUME OpsInv, Ops!Decide
    PROVE  OpsInv'
<1>1. /\ task.seen.status \in {"awaiting", "overdue"} /\ opsBusy' = TRUE
      /\ post' = [[Ops!NoPost EXCEPT !.kind = "decision"] EXCEPT !.task = task]
      /\ UNCHANGED <<opsMounted, urlTask, catalog, server, task, replies, agent, expired>>
  BY DEF Ops!Decide
<1>2. task \in Ops!Shown /\ task.id # None
  <2>1. task \in Ops!Shown
    BY OpsHeld, OpsTypes
  <2>2. QED
    BY <1>1, <2>1, ShownCases
<1>3. /\ post' \in [kind : {"none", "start", "decision"}, task : Ops!Shown, answered : BOOLEAN]
      /\ post'.kind = "decision" /\ ~post'.answered /\ post'.task = task
  BY <1>1, <1>2, NoPostTyped
<1>4. opsMounted
  BY <1>2, OpsHeld DEF Ops!NoTask
<1>5. Known(task)' /\ ClosedInv'
  BY <1>1, <1>4, OpsHeld DEF Known, ClosedInv
<1>6. Cardinality(replies') <= MaxReplies \/ (task'.seen.status \in Ops!Followed /\ post'.kind # "start")
  BY <1>1, <1>3, OpsHeld
<1>7. QED
  BY <1>1, <1>2, <1>3, <1>5, <1>6, OpsHeld, OpsTypes, SameAgent

\* A task that has ended is no longer followed.
LEMMA NewTaskStep ==
    ASSUME OpsInv, Ops!NewTask
    PROVE  OpsInv'
<1>1. /\ task.seen.status \in Ops!Ended /\ urlTask' = None /\ task' = Ops!NoTask /\ Ops!RestoreEffect(None)
      /\ UNCHANGED <<opsMounted, catalog, server, opsBusy, post, agent, expired>>
  BY DEF Ops!NewTask
<1>2. /\ replies' \subseteq [task : Ops!Shown, cause : Ops!Causes]
      /\ IsFiniteSet(replies') /\ Cardinality(replies') <= Cardinality(replies)
      /\ \A r \in replies' : Known(r.task)
      /\ Cardinality(replies') \in Nat /\ Cardinality(replies) \in Nat
  <2>1. PICK t \in Tasks \cup {None} : t = None
    OBVIOUS
  <2>2. Ops!RestoreEffect(t)
    BY <1>1, <2>1
  <2>3. QED
    BY <2>1, <2>2, OpsHeld, Restored
<1>3. Cardinality(replies) <= MaxReplies
  BY <1>1, OpsHeld DEF Ops!Followed, Ops!Ended
<1>4. Cardinality(replies') <= MaxReplies /\ Cardinality(replies') <= MaxReplies + 1
  <2>1. MaxReplies \in Nat
    BY OpsConstants
  <2>2. QED
    BY <1>2, <1>3, <2>1
<1>5. opsMounted
  BY <1>1, OpsHeld DEF Ops!NoTask, Ops!Unknown, Ops!Ended
<1>6. Known(task)' /\ ClosedInv'
  BY <1>1, <1>5 DEF Known, ClosedInv, Ops!NoTask
<1>7. task' \in Ops!Shown
  BY <1>1 DEF Ops!Shown
<1>8. QED
  BY <1>1, <1>2, <1>4, <1>6, <1>7, OpsHeld, OpsTypes, SameAgent

\* The answer of a POST shows a task that runs, which the page follows from then on.
LEMMA PostAnswerStep ==
    ASSUME OpsInv, Ops!PostAnswer
    PROVE  OpsInv'
<1>1. /\ post.answered /\ post' = Ops!NoPost /\ opsBusy' = FALSE /\ task' = post.task
      /\ UNCHANGED <<opsMounted, catalog, server, agent, expired>>
  BY DEF Ops!PostAnswer
<1>2. post.task \in Ops!Shown /\ post.task.id # None /\ Known(post.task) /\ post.task.seen.status = "running"
  BY <1>1, OpsHeld, OpsTypes
<1>3. PICK t \in Tasks : t = post.task.id
  BY <1>2, ShownCases
<1>4. task' \in Ops!Shown /\ Known(task)' /\ task'.seen.status \in Ops!Followed
  BY <1>1, <1>2 DEF Known, Ops!Followed
<1>5. opsMounted
  BY <1>1, OpsHeld, NoPostTyped
<1>6. ClosedInv'
  BY <1>1, <1>5 DEF ClosedInv
<1>7. CASE post.kind # "start" /\ UNCHANGED <<urlTask, replies>>
  BY <1>1, <1>4, <1>6, <1>7, OpsHeld, OpsTypes, NoPostTyped, SameAgent
<1>8. CASE post.kind = "start" /\ urlTask' = t /\ Ops!RestoreEffect(t)
  <2>1. /\ replies' \subseteq [task : Ops!Shown, cause : Ops!Causes]
        /\ IsFiniteSet(replies') /\ Cardinality(replies') <= Cardinality(replies) + 1
        /\ \A r \in replies' : Known(r.task)
        /\ Cardinality(replies') \in Nat /\ Cardinality(replies) \in Nat
    BY <1>8, OpsHeld, Restored
  <2>2. Cardinality(replies) <= MaxReplies
    BY <1>8, OpsHeld
  <2>3. Cardinality(replies') <= MaxReplies + 1
    <3>1. MaxReplies \in Nat
      BY OpsConstants
    <3>2. QED
      BY <2>1, <2>2, <3>1
  <2>4. post'.kind # "start"
    BY <1>1, NoPostTyped
  <2>5. QED
    BY <1>1, <1>4, <1>6, <1>8, <2>1, <2>3, <2>4, OpsHeld, OpsTypes, NoPostTyped, SameAgent
<1>9. QED
  BY <1>3, <1>7, <1>8 DEF Ops!PostAnswer

LEMMA PostFailsStep ==
    ASSUME OpsInv, Ops!PostFails
    PROVE  OpsInv'
<1>1. /\ post' = Ops!NoPost /\ opsBusy' = FALSE
      /\ UNCHANGED <<opsMounted, urlTask, catalog, server, task, replies, agent, expired>>
  BY DEF Ops!PostFails
<1>2. Known(task)' /\ ClosedInv'
  BY <1>1, OpsHeld DEF Known, ClosedInv
<1>3. post'.kind = "none" /\ ~post'.answered
      /\ post' \in [kind : {"none", "start", "decision"}, task : Ops!Shown, answered : BOOLEAN]
  BY <1>1, NoPostTyped
<1>4. QED
  BY <1>1, <1>2, <1>3, OpsHeld, OpsTypes, SameAgent

\* What is left to show of a step of the agent, which never forgets a task.
LEMMA AgentStep ==
    ASSUME OpsInv, UNCHANGED <<opsMounted, urlTask, catalog, server, task, opsBusy, replies>>,
           agent' \in [Tasks -> Ops!Seen \cup {Ops!Unknown}], expired' \subseteq Slow,
           \A t \in Tasks : agent[t] # Ops!Unknown => agent'[t] # Ops!Unknown,
           post' \in [kind : {"none", "start", "decision"}, task : Ops!Shown, answered : BOOLEAN],
           post'.kind = post.kind, post.kind = "none" => post' = post,
           post'.kind = "decision" \/ post'.answered =>
               post'.task.id # None /\ agent'[post'.task.id] # Ops!Unknown,
           post'.answered => post'.task.seen.status = "running"
    PROVE  OpsInv'
<1>1. Ops!TypeOK'
  BY SameCardinality, OpsHeld, OpsTypes DEF Ops!TypeOK
<1>2. ASSUME NEW x \in Ops!Shown, Known(x) PROVE Known(x)'
  BY <1>2, ShownCases DEF Known
<1>3. HeldInv'
  <2>1. Known(task)'
    <3>1. task \in Ops!Shown /\ Known(task)
      BY OpsHeld, OpsTypes
    <3>2. task.id # None => task.id \in Tasks
      BY <3>1, ShownCases
    <3>3. QED
      BY <3>1, <3>2 DEF Known
  <2>2. \A r \in replies' : Known(r.task)'
    <3>1. SUFFICES ASSUME NEW r \in replies PROVE Known(r.task)'
      OBVIOUS
    <3>2. r.task \in Ops!Shown /\ Known(r.task)
      BY OpsHeld, OpsTypes
    <3>3. QED
      BY <1>2, <3>2
  <2>3. post'.kind = "decision" \/ post'.answered => Known(post.task)'
    BY DEF Known
  <2>4. post'.kind = "none" => ~post'.answered
    BY OpsHeld
  <2>5. QED
    BY <2>1, <2>2, <2>3, <2>4 DEF HeldInv
<1>4. RepliesInv'
  BY DEF OpsInv, RepliesInv
<1>5. ClosedInv'
  BY OpsHeld, NoPostTyped DEF ClosedInv
<1>6. QED
  BY <1>1, <1>3, <1>4, <1>5 DEF OpsInv

LEMMA HandleStep ==
    ASSUME OpsInv, Ops!Handle
    PROVE  OpsInv'
<1>1. /\ post.kind # "none" /\ ~post.answered
      /\ UNCHANGED <<opsMounted, urlTask, catalog, server, task, opsBusy, replies, expired>>
  BY DEF Ops!Handle, Ops!page
<1>2. /\ post \in [kind : {"none", "start", "decision"}, task : Ops!Shown, answered : BOOLEAN]
      /\ agent \in [Tasks -> Ops!Seen \cup {Ops!Unknown}] /\ expired' \subseteq Slow
  BY <1>1, OpsHeld, OpsTypes
<1>3. ASSUME NEW t \in Tasks, agent[t] = Ops!Unknown,
             agent' = [agent EXCEPT ![t] = [status |-> "running", call |-> 0]],
             post' = [post EXCEPT !.task = [id |-> t, seen |-> agent'[t]], !.answered = TRUE]
      PROVE  OpsInv'
  <2>1. PICK s : s = [status |-> "running", call |-> 0]
    OBVIOUS
  <2>2. s \in Ops!Seen /\ s # Ops!Unknown /\ s.status = "running"
    <3>1. 0 \in 0..MaxCalls
      BY OpsConstants
    <3>2. QED
      BY <2>1, <3>1 DEF Ops!Seen, Ops!Unknown
  <2>3. agent' = [agent EXCEPT ![t] = s]
    BY <1>3, <2>1
  <2>4. /\ agent' \in [Tasks -> Ops!Seen \cup {Ops!Unknown}] /\ agent'[t] = s
        /\ \A u \in Tasks : agent[u] # Ops!Unknown => agent'[u] # Ops!Unknown
    BY <1>2, <1>3, <2>2, <2>3
  <2>5. PICK x : x = [id |-> t, seen |-> s]
    OBVIOUS
  <2>6. x \in Ops!Shown /\ x.id = t /\ x.seen = s
    BY <2>2, <2>5 DEF Ops!Shown
  <2>7. post' = [[post EXCEPT !.task = x] EXCEPT !.answered = TRUE]
    BY <1>3, <2>4, <2>5
  <2>8. /\ post' \in [kind : {"none", "start", "decision"}, task : Ops!Shown, answered : BOOLEAN]
        /\ post'.kind = post.kind /\ post'.task = x /\ post'.answered
    BY <1>2, <2>6, <2>7
  <2>9. t # None
    BY OpsConstants
  <2>10. QED
    BY <1>1, <1>2, <2>2, <2>4, <2>6, <2>8, <2>9, AgentStep
<1>4. ASSUME post.kind = "decision", NEW t, t = post.task.id, agent[t] = post.task.seen,
             agent' = [agent EXCEPT ![t].status = "running"],
             post' = [post EXCEPT !.task.seen = agent'[t], !.answered = TRUE]
      PROVE  OpsInv'
  <2>1. post.task.id # None /\ post.task \in Ops!Shown
    BY <1>2, <1>4, OpsHeld
  <2>2. t \in Tasks /\ t # None /\ post.task.seen \in Ops!Seen /\ post.task # Ops!NoTask
    BY <1>4, <2>1, ShownCases DEF Ops!NoTask
  <2>3. PICK s : s = [post.task.seen EXCEPT !.status = "running"]
    OBVIOUS
  <2>4. s \in Ops!Seen /\ s # Ops!Unknown /\ s.status = "running"
    BY <2>2, <2>3 DEF Ops!Seen, Ops!Unknown
  <2>5. agent' = [agent EXCEPT ![t] = s]
    BY <1>4, <2>3
  <2>6. /\ agent' \in [Tasks -> Ops!Seen \cup {Ops!Unknown}] /\ agent'[t] = s
        /\ \A u \in Tasks : agent[u] # Ops!Unknown => agent'[u] # Ops!Unknown
    BY <1>2, <2>2, <2>4, <2>5
  <2>7. PICK x : x = [post.task EXCEPT !.seen = s]
    OBVIOUS
  <2>8. x \in Ops!Shown /\ x.id = t /\ x.seen = s
    BY <1>4, <2>1, <2>2, <2>4, <2>7 DEF Ops!Shown
  <2>9. post' = [[post EXCEPT !.task = x] EXCEPT !.answered = TRUE]
    BY <1>4, <2>6, <2>7
  <2>10. /\ post' \in [kind : {"none", "start", "decision"}, task : Ops!Shown, answered : BOOLEAN]
         /\ post'.kind = post.kind /\ post'.task = x /\ post'.answered
    BY <1>2, <2>8, <2>9
  <2>11. QED
    BY <1>1, <1>2, <2>2, <2>4, <2>6, <2>8, <2>10, AgentStep
<1>5. QED
  BY <1>3, <1>4 DEF Ops!Handle

\* The agent goes on, or its deadline passes, while the page waits.
LEMMA ProgressStep ==
    ASSUME OpsInv, NEW t \in Tasks, Ops!Proceed(t) \/ Ops!Expire(t) \/ Ops!Revive(t)
    PROVE  OpsInv'
<1>1. /\ UNCHANGED <<opsMounted, urlTask, catalog, server, task, opsBusy, post, replies>>
      /\ agent[t] # Ops!Unknown
  BY DEF Ops!Proceed, Ops!Expire, Ops!Revive, Ops!page, Ops!Unknown
<1>2. /\ agent \in [Tasks -> Ops!Seen \cup {Ops!Unknown}] /\ agent[t] \in Ops!Seen
      /\ post \in [kind : {"none", "start", "decision"}, task : Ops!Shown, answered : BOOLEAN]
      /\ expired' \subseteq Slow
  BY <1>1, OpsHeld, OpsTypes DEF Ops!Proceed, Ops!Expire, Ops!Revive
<1>3. PICK s \in Ops!Seen : agent' = [agent EXCEPT ![t] = s]
  <2>1. PICK o \in Ops!Seen : o = agent[t]
    BY <1>2
  <2>2. CASE o.call < MaxCalls /\ agent' = [agent EXCEPT ![t] = [status |-> "awaiting", call |-> o.call + 1]]
    <3>1. o.call \in 0..MaxCalls /\ MaxCalls \in Nat
      BY OpsConstants DEF Ops!Seen
    <3>2. PICK k : k = o.call + 1
      OBVIOUS
    <3>3. k \in 0..MaxCalls
      BY <2>2, <3>1, <3>2
    <3>4. [status |-> "awaiting", call |-> k] \in Ops!Seen
      BY <3>3 DEF Ops!Seen
    <3>5. QED
      BY <2>2, <3>2, <3>4
  <2>3. ASSUME NEW w \in {"running", "ended", "overdue"}, agent' = [agent EXCEPT ![t].status = w]
        PROVE  \E s \in Ops!Seen : agent' = [agent EXCEPT ![t] = s]
    <3>1. PICK s : s = [o EXCEPT !.status = w]
      OBVIOUS
    <3>2. s \in Ops!Seen
      BY <3>1 DEF Ops!Seen, Ops!Ended
    <3>3. agent' = [agent EXCEPT ![t] = s]
      BY <2>1, <2>3, <3>1
    <3>4. QED
      BY <3>2, <3>3
  <2>4. CASE Ops!Proceed(t)
    BY <2>1, <2>2, <2>3, <2>4 DEF Ops!Proceed
  <2>5. CASE Ops!Expire(t)
    BY <2>3, <2>5 DEF Ops!Expire
  <2>6. CASE Ops!Revive(t)
    BY <2>1, <2>2, <2>6 DEF Ops!Revive
  <2>7. QED
    BY <2>4, <2>5, <2>6
<1>4. \A x \in Ops!Seen : x # Ops!Unknown
  BY DEF Ops!Seen, Ops!Ended, Ops!Unknown
<1>5. /\ agent' \in [Tasks -> Ops!Seen \cup {Ops!Unknown}]
      /\ \A u \in Tasks : agent[u] # Ops!Unknown => agent'[u] # Ops!Unknown
  BY <1>2, <1>3, <1>4
<1>6. post.kind = "decision" \/ post.answered =>
          post.task.id # None /\ post.task.id \in Tasks /\ agent[post.task.id] # Ops!Unknown
  BY <1>2, OpsHeld, ShownCases DEF Known
<1>7. QED
  BY <1>1, <1>2, <1>5, <1>6, OpsHeld, AgentStep

LEMMA OpsStep ==
    ASSUME OpsInv, [Ops!Next]_ops
    PROVE  OpsInv'
<1>1. CASE UNCHANGED ops
  <2>1. UNCHANGED <<opsMounted, urlTask, catalog, server, task, opsBusy, post, replies, agent, expired>>
    BY <1>1 DEF ops
  <2>2. Ops!TypeOK'
    BY <2>1, SameCardinality, OpsHeld, OpsTypes DEF Ops!TypeOK
  <2>3. HeldInv' /\ RepliesInv' /\ ClosedInv'
    BY <2>1 DEF OpsInv, HeldInv, Known, RepliesInv, ClosedInv
  <2>4. QED
    BY <2>2, <2>3 DEF OpsInv
<1>2. CASE Ops!Next
  BY <1>2, OpsMountStep, SelectStep, AskStep, ReplyStep, StartStep, DecideStep, NewTaskStep, HandleStep,
     PostAnswerStep, PostFailsStep, ProgressStep DEF Ops!Next
<1>3. QED
  BY <1>1, <1>2

LEMMA OpsInit == Ops!Init => OpsInv
<1> SUFFICES ASSUME Ops!Init PROVE OpsInv
  OBVIOUS
<1>1. /\ opsMounted = FALSE /\ urlTask = None /\ catalog = FALSE /\ server = FALSE /\ task = Ops!NoTask
      /\ opsBusy = FALSE /\ post = Ops!NoPost /\ replies = {}
      /\ agent = [t \in Tasks |-> IF t \in Earlier THEN [status |-> "running", call |-> 0] ELSE Ops!Unknown]
      /\ expired = {}
  BY DEF Ops!Init
<1>2. IsFiniteSet(replies) /\ Cardinality(replies) = 0
  BY <1>1, FS_EmptySet
<1>3. MaxReplies \in Nat /\ MaxCalls \in Nat
  BY OpsConstants
<1>4. Cardinality(replies) <= MaxReplies /\ Ops!Cardinality(replies) <= MaxReplies + 1
  <2>1. Ops!Cardinality(replies) = 0
    BY <1>2, SameCardinality
  <2>2. QED
    BY <1>2, <1>3, <2>1
<1>5. agent \in [Tasks -> Ops!Seen \cup {Ops!Unknown}]
  <2>1. [status |-> "running", call |-> 0] \in Ops!Seen
    BY <1>3 DEF Ops!Seen
  <2>2. QED
    BY <1>1, <2>1
<1>6. task \in Ops!Shown /\ task.id = None
  BY <1>1 DEF Ops!NoTask, Ops!Shown
<1>7. Ops!TypeOK
  BY <1>1, <1>4, <1>5, <1>6, NoPostTyped DEF Ops!TypeOK
<1>8. HeldInv /\ RepliesInv /\ ClosedInv
  BY <1>1, <1>2, <1>4, <1>6, NoPostTyped DEF HeldInv, Known, RepliesInv, ClosedInv
<1>9. QED
  BY <1>7, <1>8 DEF OpsInv

\* OpsInv is inductive, on whatever page the tab is.
THEOREM OpsInductive == Spec => []OpsInv
<1>1. Init => OpsInv
  BY OpsInit DEF Init
<1>2. OpsInv /\ [Next]_vars => OpsInv'
  BY OpsStep DEF Next, vars, OverviewPage, OpsPage, CodePage
<1>3. QED
  BY <1>1, <1>2, PTL DEF Spec

-----------------------------------------------------------------------------
(* The tab *)

\* Every variable of the pages keeps its type; the operations page never has more than one
\* request on its way beyond those of its timer.
THEOREM PagesTypeCorrect == Spec => []TypeOK
<1>1. Init => page \in Paths
  BY DEF Init
<1>2. page \in Paths /\ [Next]_vars => (page \in Paths)'
  BY DEF Next, vars, OverviewPage, OpsPage, CodePage
<1>3. Spec => [](page \in Paths)
  BY <1>1, <1>2, PTL DEF Spec
<1>4. page \in Paths /\ OverviewInv /\ OpsInv /\ CodeInv => TypeOK
  BY DEF OverviewInv, OpsInv, CodeInv, TypeOK
<1>5. QED
  BY <1>3, <1>4, OverviewInductive, OpsInductive, CodeInductive, PTL
=============================================================================
