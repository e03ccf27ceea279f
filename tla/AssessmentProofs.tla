--------------------------- MODULE AssessmentProofs ---------------------------
(***************************************************************************)
(* Theorems about Assessment for every number of workers and questions,    *)
(* every set of keys, responses, points and limits, however requests       *)
(* interleave and wherever they fail; the last section is about requests   *)
(* served one at a time.                                                   *)
(***************************************************************************)
EXTENDS Assessment, FiniteSetTheorems, TLAPS

\* The submission a worker is about to write is a whole one: scored exactly
\* when it is graded, and graded only if it was handed in.
Whole(s) ==
    /\ s.status = "graded" <=> s.score # NoScore
    /\ s.status = "graded" => s.handedIn

\* A row says submitted only once it was handed in.
HandedInSound(s) == s.status = "submitted" => s.handedIn

Sane(s) == Whole(s) /\ HandedInSound(s)

\* What a worker holds when it is about to run a statement.
Ready(w) ==
    /\ pc[w] \in {"open", "count", "create"} => loc[w].limit \in AttemptLimits
    /\ pc[w] \in {"check", "clear", "replace",
                 "questions", "answers", "erase", "mark", "grade"} =>
          loc[w].number \in Made
    /\ pc[w] = "lookup" => loc[w].sub.status \in {"draft", "submitted"}
    /\ pc[w] = "upsert" => Sane(loc[w].sub)

Sound == TypeOK /\ Sane(submission) /\ \A w \in Workers : Ready(w)

-------------------------------------------------------------------------------
(* Records                                                                 *)

LEMMA BlankType ==
    /\ NoQuestion \in Question
    /\ NoSheet \in Sheet
    /\ NoAttempt \in Attempt
    /\ NoSubmission \in Submission
    /\ Blank \in Local
    /\ Blank.sub = NoSubmission
<1>1. NoQuestion \in Question
  BY DEF NoQuestion, Question
<1>2. NoSheet \in Sheet
  BY DEF NoSheet, Sheet
<1>3. NoAttempt \in Attempt
  BY DEF NoAttempt, Attempt
<1>4. NoSubmission \in Submission
  BY DEF NoSubmission, Submission
<1> QED
  BY <1>1, <1>2, <1>3, <1>4 DEF Blank, Local

\* A marked answer is a row points_awarded >= 0 admits.
LEMMA MarkedType ==
    ASSUME NEW asked \in Question, NEW given \in Seq(Options)
    PROVE  Marked(asked, given) \in Answer
BY DEF Marked, Answer, Question

\* What SubmitAttempt writes is a sheet of answers.
LEMMA GradedType ==
    ASSUME NEW paper \in [Questions -> Question], NEW sheet \in Sheet
    PROVE  Graded(paper, sheet) \in Sheet
<1> SUFFICES ASSUME NEW q \in Questions
             PROVE  Graded(paper, sheet)[q] \in Answer \cup {NoAnswer}
  BY DEF Graded, Sheet
<1>1. <<>> \in Seq(Options)
  OBVIOUS
<1>2. sheet[q] # NoAnswer => sheet[q].given \in Seq(Options)
  BY DEF Sheet, Answer
<1>3. (IF sheet[q] = NoAnswer THEN <<>> ELSE sheet[q].given) \in Seq(Options)
  BY <1>1, <1>2
<1>4. Marked(paper[q], IF sheet[q] = NoAnswer THEN <<>> ELSE sheet[q].given) \in Answer
  BY <1>3, MarkedType
<1> QED
  BY <1>4 DEF Graded

\* The points a sheet awards are natural numbers.
LEMMA AwardType ==
    ASSUME NEW sheet \in Sheet
    PROVE  Award(sheet) \in [Questions -> Nat]
BY DEF Award, Sheet, Answer

\* What a learner sends is a sheet of answers.
LEMMA SentType == Sent \subseteq Sheet
<1> SUFFICES ASSUME NEW sheet \in Sent, NEW q \in Questions
             PROVE  sheet[q] \in Answer \cup {NoAnswer}
  BY DEF Sent, Sheet
<1>1. sheet[q] \in {NoAnswer} \cup
         [given : Responses \cup {<<>>}, mark : {"none"}, points : {0}]
  BY DEF Sent
<1>2. <<>> \in Seq(Options)
  OBVIOUS
<1>3. Responses \cup {<<>>} \subseteq Seq(Options)
  BY <1>2, QuestionsAssumption, Zenon
<1> QED
  BY <1>1, <1>3 DEF Answer

\* Numbers is finite, so the attempts made can be counted.
LEMMA MadeFinite == IsFiniteSet(Made) /\ Cardinality(Made) \in Nat
<1>1. IsFiniteSet(Numbers)
  BY FS_Interval, LimitsAssumption DEF Numbers
<1>2. Made \subseteq Numbers
  BY DEF Made
<1> QED
  BY <1>1, <1>2, FS_Subset, FS_CardinalityType

-------------------------------------------------------------------------------
(* How a worker moves                                                      *)

\* A worker other than w is as ready as it was when no attempt disappears.
LEMMA OthersReady ==
    ASSUME Sound, NEW w \in Workers, Made \subseteq Made',
           \A v \in Workers \ {w} : pc'[v] = pc[v] /\ loc'[v] = loc[v]
    PROVE  \A v \in Workers \ {w} : Ready(v)'
<1> SUFFICES ASSUME NEW v \in Workers \ {w} PROVE Ready(v)'
  OBVIOUS
<1>1. Ready(v)
  BY DEF Sound
<1>2. pc'[v] = pc[v] /\ loc'[v] = loc[v]
  OBVIOUS
<1> QED
  BY <1>1, <1>2 DEF Ready, Sane, Whole, HandedInSound

LEMMA HoldSound ==
    ASSUME Sound, NEW w \in Workers, NEW label \in Label, NEW l \in Local,
           Hold(w, label, l), Made \subseteq Made'
    PROVE  /\ pc' \in [Workers -> Label] /\ loc' \in [Workers -> Local]
           /\ pc'[w] = label /\ loc'[w] = l
           /\ \A v \in Workers \ {w} : Ready(v)'
<1>1. /\ pc \in [Workers -> Label] /\ loc \in [Workers -> Local]
  BY DEF Sound, TypeOK
<1>2. /\ pc' \in [Workers -> Label] /\ loc' \in [Workers -> Local]
      /\ pc'[w] = label /\ loc'[w] = l
      /\ \A v \in Workers \ {w} : pc'[v] = pc[v] /\ loc'[v] = loc[v]
  BY <1>1 DEF Hold
<1> QED
  BY <1>2, OthersReady

LEMMA GotoSound ==
    ASSUME Sound, NEW w \in Workers, NEW label \in Label, Goto(w, label),
           Made \subseteq Made'
    PROVE  /\ pc' \in [Workers -> Label] /\ loc' \in [Workers -> Local]
           /\ pc'[w] = label /\ loc'[w] = loc[w]
           /\ \A v \in Workers \ {w} : Ready(v)'
<1>1. /\ pc \in [Workers -> Label] /\ loc \in [Workers -> Local]
  BY DEF Sound, TypeOK
<1>2. /\ pc' \in [Workers -> Label] /\ loc' \in [Workers -> Local]
      /\ pc'[w] = label /\ loc'[w] = loc[w]
      /\ \A v \in Workers \ {w} : pc'[v] = pc[v] /\ loc'[v] = loc[v]
  BY <1>1 DEF Goto
<1> QED
  BY <1>2, OthersReady

LEMMA FinishSound ==
    ASSUME Sound, NEW w \in Workers, Finish(w), Made \subseteq Made'
    PROVE  /\ pc' \in [Workers -> Label] /\ loc' \in [Workers -> Local]
           /\ \A v \in Workers : Ready(v)'
<1>1. "idle" \in Label /\ Hold(w, "idle", Blank)
  BY DEF Label, Finish, Hold
<1>2. /\ pc' \in [Workers -> Label] /\ loc' \in [Workers -> Local]
      /\ pc'[w] = "idle"
      /\ \A v \in Workers \ {w} : Ready(v)'
  BY <1>1, BlankType, HoldSound
<1>3. Ready(w)'
  BY <1>2 DEF Ready
<1> QED
  BY <1>2, <1>3

\* A request that has changed no table preserves Sound when it finishes, or is
\* ready for the next statement.
LEMMA ReadOnly ==
    ASSUME Sound, NEW w \in Workers, UNCHANGED tables,
           \/ Finish(w)
           \/ \E label \in Label : Goto(w, label) /\ Ready(w)'
           \/ \E label \in Label, l \in Local : Hold(w, label, l) /\ Ready(w)'
    PROVE  Sound'
<1>1. Made' = Made
  BY DEF tables, Made
<1>2. CASE Finish(w)
  BY <1>1, <1>2, FinishSound DEF Sound, TypeOK, tables, Sane, Whole, HandedInSound
<1>3. CASE \E label \in Label : Goto(w, label) /\ Ready(w)'
  BY <1>1, <1>3, GotoSound DEF Sound, TypeOK, tables, Sane, Whole, HandedInSound
<1>4. CASE \E label \in Label, l \in Local : Hold(w, label, l) /\ Ready(w)'
  BY <1>1, <1>4, HoldSound DEF Sound, TypeOK, tables, Sane, Whole, HandedInSound
<1> QED
  BY <1>2, <1>3, <1>4

-------------------------------------------------------------------------------
(* Statements that only read                                               *)

\* Attempts are started on a max_attempts the quiz had.
LEMMA StartReads ==
    ASSUME Sound, NEW w \in Workers,
           BeginStart(w) \/ FindOpen(w) \/ CountAttempts(w)
    PROVE  Sound'
<1> USE DEF Sound
<1>0. /\ pc \in [Workers -> Label] /\ loc \in [Workers -> Local] /\ loc[w] \in Local
      /\ quiz \in Quiz /\ Ready(w)
  BY DEF TypeOK
<1>1. CASE BeginStart(w)
  <2> DEFINE l == [Blank EXCEPT !.limit = quiz.limit]
  <2>1. l \in Local /\ l.limit \in AttemptLimits
    BY <1>0, BlankType DEF Local, Quiz
  <2>2. Hold(w, "open", l) /\ UNCHANGED tables
    BY <1>1 DEF BeginStart
  <2>3. pc'[w] = "open" /\ loc'[w] = l
    BY <1>0, <2>2 DEF Hold
  <2>4. Ready(w)'
    BY <2>1, <2>3 DEF Ready
  <2>5. "open" \in Label
    BY DEF Label
  <2> QED
    BY <2>1, <2>2, <2>4, <2>5, ReadOnly
<1>2. CASE FindOpen(w)
  <2>1. CASE Goto(w, "count") /\ UNCHANGED tables
    <3>1. pc'[w] = "count" /\ loc'[w] = loc[w]
      BY <1>0, <2>1 DEF Goto
    <3>2. Ready(w)'
      BY <1>0, <1>2, <3>1 DEF Ready, FindOpen
    <3>3. "count" \in Label
      BY DEF Label
    <3> QED
      BY <2>1, <3>2, <3>3, ReadOnly
  <2> QED
    BY <1>2, <2>1, ReadOnly DEF FindOpen
<1>3. CASE CountAttempts(w)
  <2> DEFINE l == [loc[w] EXCEPT !.number = Cardinality(Made) + 1]
  <2>1. l \in Local /\ l.limit = loc[w].limit
    BY <1>0, MadeFinite DEF Local
  <2>2. CASE Hold(w, "create", l) /\ UNCHANGED tables
    <3>1. pc'[w] = "create" /\ loc'[w] = l
      BY <1>0, <2>2 DEF Hold
    <3>2. Ready(w)'
      BY <1>0, <1>3, <2>1, <3>1 DEF Ready, CountAttempts
    <3>3. "create" \in Label
      BY DEF Label
    <3> QED
      BY <2>1, <2>2, <3>2, <3>3, ReadOnly
  <2> QED
    BY <1>3, <2>2, ReadOnly DEF CountAttempts
<1> QED
  BY <1>1, <1>2, <1>3

\* A saved sheet is one of answers, to an attempt that exists.
LEMMA SaveReads ==
    ASSUME Sound, NEW w \in Workers,
           \/ \E n \in Numbers, sheet \in Sent : BeginSave(w, n, sheet)
           \/ CheckSave(w)
    PROVE  Sound'
<1> USE DEF Sound
<1>0. /\ pc \in [Workers -> Label] /\ loc \in [Workers -> Local] /\ loc[w] \in Local
      /\ Ready(w)
  BY DEF TypeOK
<1>1. CASE \E n \in Numbers, sheet \in Sent : BeginSave(w, n, sheet)
  <2> PICK n \in Numbers, sheet \in Sent : BeginSave(w, n, sheet)
    BY <1>1
  <2> DEFINE l == [Blank EXCEPT !.number = n, !.sheet = sheet]
  <2>1. l \in Local /\ l.number = n
    <3>1. sheet \in Sheet /\ n \in Nat
      BY SentType, LimitsAssumption DEF Numbers
    <3>2. Blank \in Local
      BY BlankType
    <3> QED
      BY <3>1, <3>2 DEF Local
  <2>2. Hold(w, "check", l) /\ UNCHANGED tables /\ n \in Made
    BY DEF BeginSave, Made
  <2>3. pc'[w] = "check" /\ loc'[w] = l /\ Made' = Made
    BY <1>0, <2>2 DEF Hold, tables, Made
  <2>4. Ready(w)'
    BY <2>1, <2>2, <2>3 DEF Ready
  <2>5. "check" \in Label
    BY DEF Label
  <2> QED
    BY <2>1, <2>2, <2>4, <2>5, ReadOnly
<1>2. CASE CheckSave(w)
  <2>1. CASE Goto(w, "clear") /\ UNCHANGED tables
    <3>1. pc'[w] = "clear" /\ loc'[w] = loc[w] /\ Made' = Made
      BY <1>0, <2>1 DEF Goto, tables, Made
    <3>2. Ready(w)'
      BY <1>0, <1>2, <3>1 DEF Ready, CheckSave
    <3>3. "clear" \in Label
      BY DEF Label
    <3> QED
      BY <2>1, <3>2, <3>3, ReadOnly
  <2> QED
    BY <1>2, <2>1, ReadOnly DEF CheckSave
<1> QED
  BY <1>1, <1>2

\* The sheet SubmitAttempt composes is one of answers.
LEMMA SubmitReads ==
    ASSUME Sound, NEW w \in Workers,
           (\E n \in Numbers : BeginSubmit(w, n)) \/ ReadQuestions(w) \/ ReadAnswers(w)
    PROVE  Sound'
<1> USE DEF Sound
<1>0. /\ pc \in [Workers -> Label] /\ loc \in [Workers -> Local] /\ loc[w] \in Local
      /\ Ready(w) /\ UNCHANGED tables /\ Made' = Made
  BY DEF TypeOK, BeginSubmit, ReadQuestions, ReadAnswers, tables, Made
<1>1. CASE \E n \in Numbers : BeginSubmit(w, n)
  <2> PICK n \in Numbers : BeginSubmit(w, n)
    BY <1>1
  <2> DEFINE l == [Blank EXCEPT !.number = n]
  <2>1. l \in Local /\ l.number = n
    BY BlankType, LimitsAssumption DEF Local, Numbers
  <2>2. Hold(w, "questions", l) /\ n \in Made
    BY DEF BeginSubmit, Made
  <2>3. pc'[w] = "questions" /\ loc'[w] = l
    BY <1>0, <2>2 DEF Hold
  <2>4. Ready(w)'
    BY <1>0, <2>1, <2>2, <2>3 DEF Ready
  <2>5. "questions" \in Label
    BY DEF Label
  <2> QED
    BY <1>0, <2>1, <2>2, <2>4, <2>5, ReadOnly
<1>2. CASE ReadQuestions(w)
  <2> DEFINE l == [loc[w] EXCEPT !.paper = question]
  <2>1. l \in Local /\ l.number = loc[w].number
    BY <1>0 DEF Local, TypeOK
  <2>2. Hold(w, "answers", l) /\ pc[w] = "questions"
    BY <1>2 DEF ReadQuestions
  <2>3. pc'[w] = "answers" /\ loc'[w] = l
    BY <1>0, <2>2 DEF Hold
  <2>4. Ready(w)'
    BY <1>0, <2>1, <2>2, <2>3 DEF Ready
  <2>5. "answers" \in Label
    BY DEF Label
  <2> QED
    BY <1>0, <2>1, <2>2, <2>4, <2>5, ReadOnly
<1>3. CASE ReadAnswers(w)
  <2> DEFINE g == Graded(loc[w].paper, answers[loc[w].number])
             l == [loc[w] EXCEPT !.sheet = g]
  <2>1. loc[w].number \in Numbers
    BY <1>0, <1>3 DEF Ready, ReadAnswers, Made
  <2>2. answers[loc[w].number] \in Sheet /\ loc[w].paper \in [Questions -> Question]
    BY <1>0, <2>1 DEF TypeOK, Local
  <2>3. g \in Sheet
    BY <2>2, GradedType
  <2> HIDE DEF g
  <2>4. l \in Local /\ l.number = loc[w].number
    BY <1>0, <2>3 DEF Local
  <2>5. Hold(w, "erase", l) /\ pc[w] = "answers"
    BY <1>3 DEF ReadAnswers, g
  <2>6. pc'[w] = "erase" /\ loc'[w] = l
    BY <1>0, <2>5 DEF Hold
  <2>7. Ready(w)'
    BY <1>0, <2>4, <2>5, <2>6 DEF Ready
  <2>8. "erase" \in Label
    BY DEF Label
  <2> QED
    BY <1>0, <2>4, <2>5, <2>7, <2>8, ReadOnly
<1> QED
  BY <1>1, <1>2, <1>3

\* A submission about to be written is a sane one, copied from a sane row.
LEMMA WorkReads ==
    ASSUME Sound, NEW w \in Workers,
           \/ \E body \in Bodies, status \in {"draft", "submitted"} :
                 BeginSubmission(w, body, status)
           \/ FindSubmission(w)
           \/ \E score \in Scores : BeginGrade(w, score)
    PROVE  Sound'
<1> USE DEF Sound
<1>0. /\ pc \in [Workers -> Label] /\ loc \in [Workers -> Local] /\ loc[w] \in Local
      /\ Ready(w) /\ UNCHANGED tables /\ submission \in Submission
  BY DEF TypeOK, BeginSubmission, FindSubmission, BeginGrade
<1>1. CASE \E body \in Bodies, status \in {"draft", "submitted"} :
             BeginSubmission(w, body, status)
  <2> PICK body \in Bodies, status \in {"draft", "submitted"} :
             BeginSubmission(w, body, status)
    BY <1>1
  <2> DEFINE s == [NoSubmission EXCEPT !.status = status, !.body = body]
             l == [Blank EXCEPT !.sub = s]
  <2>1. s \in Submission /\ s.status = status
    BY BlankType DEF Submission
  <2>2. l \in Local /\ l.sub = s
    BY <2>1, BlankType DEF Local
  <2>3. Hold(w, "lookup", l)
    BY DEF BeginSubmission
  <2>4. pc'[w] = "lookup" /\ loc'[w] = l
    BY <1>0, <2>3 DEF Hold
  <2>5. Ready(w)'
    BY <2>1, <2>2, <2>4 DEF Ready
  <2>6. "lookup" \in Label
    BY DEF Label
  <2> QED
    BY <1>0, <2>2, <2>3, <2>5, <2>6, ReadOnly
<1>2. CASE FindSubmission(w)
  <2> DEFINE s == Rewritten(w)
             l == [loc[w] EXCEPT !.sub = s]
  <2>1. loc[w].sub \in Submission /\ loc[w].sub.status \in {"draft", "submitted"}
    BY <1>0, <1>2 DEF Local, Ready, FindSubmission
  <2>2. s \in Submission
    BY <1>0, <2>1 DEF Rewritten, Submission
  <2>3. submission.status # "graded" => Sane(s)
    BY <1>0, <2>1 DEF Rewritten, Submission, Sane, Whole, HandedInSound
  <2> HIDE DEF s
  <2>4. l \in Local /\ l.sub = s
    BY <1>0, <2>2 DEF Local
  <2>5. CASE submission.status # "graded"
    <3>1. Hold(w, "upsert", l)
      BY <1>2, <2>5 DEF FindSubmission, s
    <3>2. pc'[w] = "upsert" /\ loc'[w] = l
      BY <1>0, <3>1 DEF Hold
    <3>3. Ready(w)'
      BY <2>3, <2>4, <2>5, <3>2 DEF Ready, Sane, Whole, HandedInSound
    <3>4. "upsert" \in Label
      BY DEF Label
    <3> QED
      BY <1>0, <2>4, <3>1, <3>3, <3>4, ReadOnly
  <2> QED
    BY <1>0, <1>2, <2>5, ReadOnly DEF FindSubmission
<1>3. CASE \E score \in Scores : BeginGrade(w, score)
  <2> PICK score \in Scores : BeginGrade(w, score)
    BY <1>3
  <2> DEFINE s == [submission EXCEPT !.status = "graded", !.score = score]
             l == [Blank EXCEPT !.sub = s]
  <2>1. score \in Nat /\ score # NoScore
    BY GradesAssumption
  <2>2. s \in Submission
    BY <1>0, <2>1 DEF Submission
  <2>3. Sane(s)
    BY <1>0, <2>1 DEF Submission, Sane, Whole, HandedInSound, BeginGrade, Gradable
  <2>4. Hold(w, "upsert", l)
    BY DEF BeginGrade
  <2> HIDE DEF s
  <2>5. l \in Local /\ l.sub = s
    BY <2>2, BlankType DEF Local
  <2>6. pc'[w] = "upsert" /\ loc'[w] = l
    BY <1>0, <2>4 DEF Hold
  <2>7. Ready(w)'
    BY <2>3, <2>5, <2>6 DEF Ready, Sane, Whole, HandedInSound
  <2>8. "upsert" \in Label
    BY DEF Label
  <2> QED
    BY <1>0, <2>4, <2>5, <2>7, <2>8, ReadOnly
<1> QED
  BY <1>1, <1>2, <1>3

-------------------------------------------------------------------------------
(* Statements that write                                                   *)

\* The answers that remain after ReplaceAll are answers.
LEMMA CommitType ==
    ASSUME TypeOK, NEW w \in Workers, loc[w].number \in Numbers, CommitAnswers(w)
    PROVE  /\ answers' \in [Numbers -> Sheet]
           /\ unseen' \in [Workers -> SUBSET Questions]
           /\ Made' = Made
<1>1. loc[w].sheet \in Sheet /\ answers[loc[w].number] \in Sheet
  BY DEF TypeOK, Local
<1>2. Replaced(w) \in Sheet
  BY <1>1 DEF Replaced, Sheet
<1>3. answers' \in [Numbers -> Sheet]
  BY <1>2 DEF CommitAnswers, TypeOK
<1>4. Answered(loc[w].sheet) \subseteq Questions
  BY DEF Answered
<1>5. unseen' \in [Workers -> SUBSET Questions]
  BY <1>4 DEF CommitAnswers, InsertedBy, TypeOK
<1> QED
  BY <1>3, <1>5 DEF CommitAnswers, Made

\* The writes of StartAttempt, SaveAnswers and SubmitAttempt.
LEMMA AttemptWrites ==
    ASSUME Sound, NEW w \in Workers,
           \/ CreateAttempt(w) \/ ClearAnswers(w) \/ ReplaceAnswers(w)
           \/ MarkAnswers(w) \/ WriteGrade(w)
    PROVE  Sound'
<1> USE DEF Sound
<1>0. /\ pc \in [Workers -> Label] /\ loc \in [Workers -> Local] /\ loc[w] \in Local
      /\ Ready(w) /\ TypeOK /\ loc[w].sheet \in Sheet
  BY DEF TypeOK, Local
<1>1. CASE CreateAttempt(w)
  <2>1. attempts' \in [Numbers -> Attempt] /\ Made \subseteq Made'
    BY <1>0, <1>1 DEF CreateAttempt, TypeOK, Attempt, Made
  <2> QED
    BY <1>0, <1>1, <2>1, FinishSound
    DEF CreateAttempt, workTables, TypeOK, Sane, Whole, HandedInSound
<1>2. CASE ReplaceAnswers(w)
  <2>1. loc[w].number \in Numbers
    BY <1>0, <1>2 DEF ReplaceAnswers, Ready, Made
  <2>2. CASE CommitAnswers(w)
    BY <1>0, <1>2, <2>1, <2>2, CommitType, FinishSound
    DEF ReplaceAnswers, CommitAnswers, workTables, TypeOK, Sane, Whole, HandedInSound
  <2>3. CASE UNCHANGED tables
    BY <1>2, <2>3, ReadOnly DEF ReplaceAnswers
  <2> QED
    BY <1>2, <2>2, <2>3 DEF ReplaceAnswers
<1>3. CASE MarkAnswers(w)
  <2>1. loc[w].number \in Numbers
    BY <1>0, <1>3 DEF MarkAnswers, Ready, Made
  <2>2. CASE UNCHANGED tables /\ Finish(w)
    BY <2>2, ReadOnly
  <2>3. CASE CommitAnswers(w) /\ Goto(w, "grade")
    <3>1. "grade" \in Label
      BY DEF Label
    <3>2. Made' = Made
      BY <2>1, <2>3, CommitType
    <3>3. /\ pc' \in [Workers -> Label] /\ loc' \in [Workers -> Local]
          /\ pc'[w] = "grade" /\ loc'[w] = loc[w]
          /\ \A v \in Workers \ {w} : Ready(v)'
      BY <2>3, <3>1, <3>2, GotoSound
    <3>4. Ready(w)'
      BY <1>0, <1>3, <3>2, <3>3 DEF Ready, MarkAnswers
    <3> QED
      BY <1>0, <2>1, <2>3, <3>3, <3>4, CommitType
      DEF CommitAnswers, workTables, TypeOK, Sane, Whole, HandedInSound
  <2> QED
    BY <1>3, <2>2, <2>3 DEF MarkAnswers
<1>5. CASE ClearAnswers(w)
  <2> DEFINE label == IF pc[w] = "clear" THEN "replace" ELSE "mark"
  <2>1. Goto(w, label) /\ label \in Label /\ label \in {"replace", "mark"}
    BY <1>5 DEF ClearAnswers, Label
  <2>2. unseen' \in [Workers -> SUBSET Questions] /\ Made' = Made
    BY <1>0, <1>5 DEF ClearAnswers, TypeOK, quizTables, Made
  <2> HIDE DEF label
  <2>3. /\ pc' \in [Workers -> Label] /\ loc' \in [Workers -> Local]
        /\ pc'[w] = label /\ loc'[w] = loc[w]
        /\ \A v \in Workers \ {w} : Ready(v)'
    BY <2>1, <2>2, GotoSound
  <2>4. Ready(w)'
    BY <1>0, <1>5, <2>1, <2>2, <2>3 DEF Ready, ClearAnswers
  <2> QED
    BY <1>0, <1>5, <2>2, <2>3, <2>4
    DEF ClearAnswers, quizTables, workTables, TypeOK, Sane, Whole, HandedInSound
<1>4. CASE WriteGrade(w)
  <2>1. Award(loc[w].sheet) \in [Questions -> Nat] /\ loc[w].number \in Made
    BY <1>0, <1>4, AwardType DEF WriteGrade, Ready
  <2>2. attempts' \in [Numbers -> Attempt] /\ Made \subseteq Made'
    BY <1>0, <1>4, <2>1 DEF WriteGrade, TypeOK, Attempt, Made
  <2> QED
    BY <1>0, <1>4, <2>2, FinishSound
    DEF WriteGrade, workTables, TypeOK, Sane, Whole, HandedInSound
<1> QED
  BY <1>1, <1>2, <1>3, <1>4, <1>5

\* Publishing a quiz, writing a submission, and a request that dies.
LEMMA OtherSteps ==
    ASSUME Sound, NEW w \in Workers,
           BeginPublish(w) \/ PublishQuiz(w) \/ UpsertSubmission(w) \/ Abort(w)
    PROVE  Sound'
<1> USE DEF Sound
<1>0. /\ pc \in [Workers -> Label] /\ loc \in [Workers -> Local] /\ loc[w] \in Local
      /\ Ready(w) /\ TypeOK
  BY DEF TypeOK
<1>1. CASE BeginPublish(w)
  <2>1. Goto(w, "publish") /\ UNCHANGED tables /\ "publish" \in Label
    BY <1>1 DEF BeginPublish, Label
  <2>2. pc'[w] = "publish"
    BY <1>0, <2>1 DEF Goto
  <2>3. Ready(w)'
    BY <2>2 DEF Ready
  <2> QED
    BY <2>1, <2>3, ReadOnly
<1>2. CASE PublishQuiz(w)
  <2>1. quiz' \in Quiz /\ Made' = Made
    BY <1>0, <1>2 DEF PublishQuiz, TypeOK, Quiz, Made
  <2> QED
    BY <1>0, <1>2, <2>1, FinishSound
    DEF PublishQuiz, workTables, TypeOK, Sane, Whole, HandedInSound
<1>3. CASE UpsertSubmission(w)
  <2>1. submission' \in Submission /\ Sane(submission)' /\ Made' = Made
    BY <1>0, <1>3
    DEF UpsertSubmission, Local, Ready, Made, quizTables, Sane, Whole, HandedInSound
  <2> QED
    BY <1>0, <1>3, <2>1, FinishSound DEF UpsertSubmission, quizTables, TypeOK
<1>4. CASE Abort(w)
  BY <1>4, ReadOnly DEF Abort
<1> QED
  BY <1>1, <1>2, <1>3, <1>4

\* What happens outside the learner's requests leaves every worker ready.
LEMMA OutsideSteps ==
    ASSUME Sound, Author \/ ChangeEnrollment
    PROVE  Sound'
<1>0. TypeOK /\ Sane(submission) /\ \A w \in Workers : Ready(w)
  BY DEF Sound
<1>1. UNCHANGED <<attempts, submission, pc, loc>>
  BY DEF Author, ChangeEnrollment, AddQuestion, UpdateQuestion, DeleteQuestion,
         UpdateQuiz, PublishAssignment, MoveDeadline, quizTables, workTables
<1>2. Sane(submission)' /\ Made' = Made
  BY <1>0, <1>1 DEF Sane, Whole, HandedInSound, Made
<1>3. \A w \in Workers : Ready(w)'
  BY <1>0, <1>1, <1>2 DEF Ready, Sane, Whole, HandedInSound
<1>4. TypeOK'
  <2>1. ASSUME NEW q \in Questions, NEW key \in Keys, NEW points \in Points,
               AddQuestion(q, key, points) \/ UpdateQuestion(q, key, points)
        PROVE  TypeOK'
    <3>1. key \in SUBSET Options /\ points \in Nat
      BY QuestionsAssumption
    <3>2. question' \in [Questions -> Question]
      BY <1>0, <2>1, <3>1 DEF AddQuestion, UpdateQuestion, TypeOK, Question
    <3> QED
      BY <1>0, <2>1, <3>2 DEF AddQuestion, UpdateQuestion, TypeOK, workTables
  <2>2. ASSUME NEW q \in Questions, DeleteQuestion(q)
        PROVE  TypeOK'
    <3>1. question' \in [Questions -> Question]
      BY <1>0, <2>2, BlankType DEF DeleteQuestion, TypeOK, Question
    <3>2. answers' \in [Numbers -> Sheet]
      BY <1>0, <2>2 DEF DeleteQuestion, TypeOK, Sheet
    <3> QED
      BY <1>0, <2>2, <3>1, <3>2 DEF DeleteQuestion, TypeOK, workTables
  <2>3. ASSUME NEW limit \in AttemptLimits, UpdateQuiz(limit)
        PROVE  TypeOK'
    BY <1>0, <2>3 DEF UpdateQuiz, TypeOK, Quiz, workTables
  <2>4. CASE PublishAssignment \/ MoveDeadline
    <3>1. assignment' \in Assignment
      BY <1>0, <2>4 DEF PublishAssignment, MoveDeadline, TypeOK, Assignment
    <3> QED
      BY <1>0, <2>4, <3>1 DEF PublishAssignment, MoveDeadline, TypeOK, quizTables
  <2>5. CASE ChangeEnrollment
    BY <1>0, <2>5 DEF ChangeEnrollment, TypeOK, quizTables, workTables
  <2> QED
    BY <2>1, <2>2, <2>3, <2>4, <2>5 DEF Author
<1> QED
  BY <1>2, <1>3, <1>4 DEF Sound

-------------------------------------------------------------------------------
(* Soundness                                                               *)

LEMMA InitSound == Init => Sound
<1> SUFFICES ASSUME Init PROVE Sound
  OBVIOUS
<1>1. TypeOK
  BY BlankType DEF Init, TypeOK, Quiz, Assignment, Label
<1>2. Sane(submission) /\ \A w \in Workers : Ready(w)
  BY DEF Init, Sane, Whole, HandedInSound, NoSubmission, Ready
<1> QED
  BY <1>1, <1>2 DEF Sound

LEMMA NextSound == Sound /\ [Next]_vars => Sound'
<1> SUFFICES ASSUME Sound, [Next]_vars PROVE Sound'
  OBVIOUS
<1>1. ASSUME NEW w \in Workers, Begin(w) PROVE Sound'
  BY <1>1, StartReads, SaveReads, SubmitReads, WorkReads, OtherSteps DEF Begin
<1>2. ASSUME NEW w \in Workers, Step(w) PROVE Sound'
  BY <1>2, StartReads, SaveReads, SubmitReads, WorkReads, AttemptWrites, OtherSteps
  DEF Step
<1>3. ASSUME NEW w \in Workers, Abort(w) PROVE Sound'
  BY <1>3, OtherSteps
<1>4. CASE Author \/ ChangeEnrollment
  BY <1>4, OutsideSteps
<1>5. CASE UNCHANGED vars
  <2>1. Made' = Made
    BY <1>5 DEF vars, Made
  <2> QED
    BY <1>5, <2>1 DEF vars, Sound, TypeOK, Ready, Sane, Whole, HandedInSound
<1> QED
  BY <1>1, <1>2, <1>3, <1>4, <1>5 DEF Next

LEMMA AlwaysSound == Spec => []Sound
BY InitSound, NextSound, PTL DEF Spec

\* Every row and worker record keeps its type, whatever interleaves or fails;
\* in particular no answer is ever awarded negative points.
THEOREM AssessmentTypesCorrect == Spec => []TypeOK
<1>1. Sound => TypeOK
  BY DEF Sound
<1> QED
  BY <1>1, AlwaysSound, PTL

\* The submission is never a mixture of a grade and a resubmission that raced:
\* UpsertSubmission and GradeSubmission both write whole rows, copied from
\* rows that were whole.
THEOREM GradesStayWhole == Spec => []GradesWhole
<1>1. Sound => GradesWhole
  BY DEF Sound, Sane, Whole, GradesWhole
<1> QED
  BY <1>1, AlwaysSound, PTL

-------------------------------------------------------------------------------
(* Attempt numbers                                                         *)

\* A worker about to insert an attempt has a number that was free when it
\* counted, at most one above the attempts there are by now, and within the
\* max_attempts it read.
NumberReady(w) ==
    pc[w] = "create" =>
        /\ loc[w].number \in 1..(Cardinality(Made) + 1)
        /\ loc[w].limit # Unlimited => loc[w].number <= loc[w].limit

Numbered == Sound /\ AttemptsNumbered /\ \A w \in Workers : NumberReady(w)

LEMMA InitNumbered == Init => Numbered
<1> SUFFICES ASSUME Init PROVE Numbered
  OBVIOUS
<1>1. Made = {} /\ Cardinality(Made) = 0
  <2>1. \A n \in Numbers : attempts[n].status = "absent"
    BY DEF Init, NoAttempt
  <2>2. Made = {}
    BY <2>1 DEF Made
  <2> QED
    BY <2>2, FS_EmptySet
<1>2. PICK limit \in AttemptLimits : TRUE
  BY LimitsAssumption
<1>3. Unlimited \notin AttemptLimits => limit \in Nat
  BY LimitsAssumption
<1>4. AttemptsNumbered
  BY <1>1, <1>2, <1>3 DEF AttemptsNumbered
<1>5. \A w \in Workers : NumberReady(w)
  BY DEF Init, NumberReady
<1> QED
  BY <1>4, <1>5, InitSound DEF Numbered

\* Only CreateAttempt adds an attempt, one; nothing deletes one.
LEMMA MadeGrows ==
    ASSUME Sound, [Next]_vars
    PROVE  \/ Made' = Made
           \/ \E w \in Workers : /\ CreateAttempt(w)
                                 /\ loc[w].number \in Numbers \ Made
                                 /\ Made' = Made \cup {loc[w].number}
<1>0. TypeOK /\ \A w \in Workers : Ready(w)
  BY DEF Sound
<1>1. CASE UNCHANGED attempts
  BY <1>1 DEF Made
<1>2. ASSUME NEW w \in Workers, CreateAttempt(w)
      PROVE  \/ Made' = Made
             \/ /\ loc[w].number \in Numbers \ Made
                /\ Made' = Made \cup {loc[w].number}
  BY <1>0, <1>2 DEF CreateAttempt, Made, TypeOK, Attempt
<1>3. ASSUME NEW w \in Workers, WriteGrade(w) PROVE Made' = Made
  <2>1. loc[w].number \in Made
    BY <1>0, <1>3 DEF WriteGrade, Ready
  <2> QED
    BY <1>0, <1>3, <2>1 DEF WriteGrade, Made, TypeOK, Attempt
<1>4. ASSUME NEW w \in Workers, Begin(w) PROVE UNCHANGED attempts
  BY <1>4 DEF Begin, BeginStart, BeginSubmit, BeginSave, BeginPublish, BeginSubmission,
              BeginGrade, tables
<1>5. ASSUME NEW w \in Workers, Step(w)
      PROVE  UNCHANGED attempts \/ CreateAttempt(w) \/ WriteGrade(w)
  BY <1>5 DEF Step, FindOpen, CountAttempts, CheckSave, ClearAnswers, ReplaceAnswers,
              CommitAnswers, ReadQuestions, ReadAnswers, MarkAnswers, PublishQuiz, FindSubmission, UpsertSubmission,
              tables, quizTables
<1>6. ASSUME NEW w \in Workers, Abort(w) PROVE UNCHANGED attempts
  BY <1>6 DEF Abort, tables
<1>7. Author \/ ChangeEnrollment => UNCHANGED attempts
  BY DEF Author, ChangeEnrollment, AddQuestion, UpdateQuestion, DeleteQuestion,
         UpdateQuiz, PublishAssignment, MoveDeadline, quizTables, workTables
<1>8. UNCHANGED vars => UNCHANGED attempts
  BY DEF vars
<1> QED
  BY <1>1, <1>2, <1>3, <1>4, <1>5, <1>6, <1>7, <1>8 DEF Next

\* A worker comes to the insert from the count only, and waits there unchanged.
LEMMA CreateComesFromCount ==
    ASSUME Sound, [Next]_vars, NEW v \in Workers, pc'[v] = "create"
    PROVE  \/ pc[v] = "create" /\ loc'[v] = loc[v]
           \/ CountAttempts(v)
<1>0. pc \in [Workers -> Label] /\ loc \in [Workers -> Local]
  BY DEF Sound, TypeOK
<1>1. ASSUME NEW w \in Workers,
             \/ Finish(w)
             \/ \E l \in Label \ {"create"} : Goto(w, l)
             \/ \E l \in Label \ {"create"} :
                   /\ pc' = [pc EXCEPT ![w] = l]
                   /\ \E r : loc' = [loc EXCEPT ![w] = r]
      PROVE  pc[v] = "create" /\ loc'[v] = loc[v]
  BY <1>0, <1>1 DEF Finish, Goto
<1>2. ASSUME NEW w \in Workers, Begin(w)
      PROVE  pc[v] = "create" /\ loc'[v] = loc[v]
  BY <1>1, <1>2 DEF Begin, BeginStart, BeginSubmit, BeginSave, BeginPublish,
                    BeginSubmission, BeginGrade, Hold, Label
<1>3. ASSUME NEW w \in Workers, Step(w), ~CountAttempts(w)
      PROVE  pc[v] = "create" /\ loc'[v] = loc[v]
  BY <1>1, <1>3 DEF Step, FindOpen, CreateAttempt, CheckSave, ClearAnswers, ReplaceAnswers,
              ReadQuestions, ReadAnswers, MarkAnswers, WriteGrade, PublishQuiz,
              FindSubmission, UpsertSubmission, Hold, Label
<1>4. ASSUME NEW w \in Workers, CountAttempts(w)
      PROVE  (pc[v] = "create" /\ loc'[v] = loc[v]) \/ CountAttempts(v)
  BY <1>0, <1>4 DEF CountAttempts, Finish, Hold
<1>5. ASSUME NEW w \in Workers, Abort(w)
      PROVE  pc[v] = "create" /\ loc'[v] = loc[v]
  BY <1>1, <1>5 DEF Abort
<1>6. Author \/ ChangeEnrollment \/ UNCHANGED vars => UNCHANGED <<pc, loc>>
  BY DEF Author, ChangeEnrollment, AddQuestion, UpdateQuestion, DeleteQuestion,
         UpdateQuiz, PublishAssignment, MoveDeadline, vars
<1> QED
  BY <1>2, <1>3, <1>4, <1>5, <1>6 DEF Next

LEMMA NextNumbered == Numbered /\ [Next]_vars => Numbered'
<1> SUFFICES ASSUME Numbered, [Next]_vars PROVE Numbered'
  OBVIOUS
<1> DEFINE n == Cardinality(Made)
<1>0. /\ Sound /\ Sound' /\ n \in Nat /\ IsFiniteSet(Made)
      /\ Made = 1..n
      /\ loc \in [Workers -> Local] /\ pc \in [Workers -> Label]
      /\ \A w \in Workers : Ready(w) /\ NumberReady(w)
  BY NextSound, MadeFinite DEF Numbered, AttemptsNumbered, Sound, TypeOK
\* When the attempts stay or grow by one, a worker's number stays in range.
<1>1. ASSUME Cardinality(Made') \in {n, n + 1}
      PROVE  \A v \in Workers : NumberReady(v)'
  <2> SUFFICES ASSUME NEW v \in Workers, pc'[v] = "create"
               PROVE  /\ loc'[v].number \in 1..(Cardinality(Made') + 1)
                      /\ loc'[v].limit # Unlimited => loc'[v].number <= loc'[v].limit
    BY DEF NumberReady
  <2>1. CASE pc[v] = "create" /\ loc'[v] = loc[v]
    BY <1>0, <1>1, <2>1 DEF NumberReady
  <2>2. CASE CountAttempts(v)
    <3> DEFINE l == [loc[v] EXCEPT !.number = n + 1]
    <3>1. loc'[v] = l /\ ~(loc[v].limit # Unlimited /\ n >= loc[v].limit)
      BY <1>0, <2>2 DEF CountAttempts, Hold, Finish
    <3>2. l.number = n + 1 /\ l.limit = loc[v].limit
      BY <1>0 DEF Local
    <3>3. loc[v].limit # Unlimited => loc[v].limit \in Nat
      BY <1>0, LimitsAssumption DEF Local
    <3> QED
      BY <1>0, <1>1, <3>1, <3>2, <3>3
  <2> QED
    BY <1>0, <2>1, <2>2, CreateComesFromCount
<1>2. CASE Made' = Made
  <2>1. AttemptsNumbered'
    BY <1>2 DEF Numbered, AttemptsNumbered
  <2> QED
    BY <1>0, <1>1, <1>2, <2>1 DEF Numbered
<1>3. ASSUME NEW w \in Workers, CreateAttempt(w),
             loc[w].number \in Numbers \ Made,
             Made' = Made \cup {loc[w].number}
      PROVE  Numbered'
  <2>1. pc[w] = "create" /\ loc[w].limit \in AttemptLimits
    BY <1>0, <1>3 DEF CreateAttempt, Ready
  <2>2. loc[w].number \in 1..(n + 1)
    BY <1>0, <2>1 DEF NumberReady
  <2>3. loc[w].number = n + 1
    BY <1>0, <1>3, <2>2
  <2>4. Cardinality(Made') = n + 1
    BY <1>0, <1>3, FS_AddElement
  <2>5. Made' = 1..(n + 1)
    BY <1>0, <1>3, <2>3
  <2>6. loc[w].limit # Unlimited => n + 1 <= loc[w].limit
    BY <1>0, <2>1, <2>3 DEF NumberReady
  <2>7. AttemptsNumbered'
    BY <2>1, <2>4, <2>5, <2>6 DEF AttemptsNumbered
  <2> QED
    BY <1>0, <1>1, <2>4, <2>7 DEF Numbered
<1> QED
  BY <1>0, <1>2, <1>3, MadeGrows

\* Whatever StartAttempts interleave between the count and the insert, attempts
\* are numbered 1, 2, ... without a gap and no more of them are ever made than
\* some max_attempts allows.
THEOREM AttemptsStayNumbered == Spec => []AttemptsNumbered
<1>1. Numbered => AttemptsNumbered
  BY DEF Numbered
<1> QED
  BY <1>1, InitNumbered, NextNumbered, PTL DEF Spec
-------------------------------------------------------------------------------
(* One request at a time, which may die: what is graded stays              *)

\* What the only request has found is still so when it writes.
Found(label, l) ==
    /\ label \in {"count", "create"} => Open = {}
    /\ label \in {"check", "clear", "replace",
                 "questions", "answers", "erase", "mark", "grade"} => l.number \in Open
    /\ label \in {"erase", "mark", "grade"} =>
          \A q \in Questions : l.sheet[q] # NoAnswer => l.sheet[q].mark # "none"
    /\ label = "grade" =>
          \A q \in Questions : answers[l.number][q] \in {l.sheet[q], NoAnswer}
    /\ label = "upsert" /\ submission.status = "graded" =>
          l.sub.status = "graded" /\ l.sub.body = submission.body

OneOpen == \A m, n \in Open : m = n

\* The answers of attempt n are those it was graded on.
GradedOn(n) ==
    \A q \in Questions : answers[n][q] # NoAnswer =>
        /\ answers[n][q].mark # "none"
        /\ answers[n][q].points = attempts[n].award[q]

Alone(w) ==
    /\ Found(pc[w], loc[w])
    /\ OneOpen
    /\ \A n \in Made \ Open : GradedOn(n)
    /\ unseen[w] = {}

\* What GradesKept says of a step.
Kept ==
    /\ \A n \in Made \ Open :
         /\ attempts'[n] = attempts[n]
         /\ \A q \in Questions : answers'[n][q] \in {answers[n][q], NoAnswer}
    /\ submission.status = "graded" =>
         submission'.status = "graded" /\ submission'.body = submission.body

\* Where the only worker goes.
LEMMA WorkerGoes ==
    ASSUME Sound, NEW w, Workers = {w}
    PROVE  /\ \A label, l : Hold(w, label, l) => pc'[w] = label /\ loc'[w] = l
           /\ \A label : Goto(w, label) => pc'[w] = label /\ loc'[w] = loc[w]
           /\ Finish(w) => pc'[w] = "idle"
<1>1. w \in DOMAIN pc /\ w \in DOMAIN loc
  BY DEF Sound, TypeOK
<1> QED
  BY <1>1 DEF Hold, Goto, Finish

LEMMA AtIdle == ASSUME NEW l PROVE Found("idle", l)
BY DEF Found

\* A statement that only reads keeps what is graded when what it found holds.
LEMMA OnlyReads ==
    ASSUME Sound, NEW w, Workers = {w}, Alone(w), UNCHANGED tables,
           \/ Finish(w)
           \/ \E label : Goto(w, label) /\ Found(label, loc[w])
           \/ \E label, l : Hold(w, label, l) /\ Found(label, l)
    PROVE  Alone(w)' /\ Kept
<1>1. PICK label, l : pc'[w] = label /\ loc'[w] = l /\ Found(label, l)
  <2>1. CASE Finish(w)
    <3>1. PICK l : l = loc'[w]
      OBVIOUS
    <3> QED
      BY <2>1, <3>1, WorkerGoes, AtIdle
  <2>2. CASE \E label : Goto(w, label) /\ Found(label, loc[w])
    BY <2>2, WorkerGoes
  <2>3. CASE \E label, l : Hold(w, label, l) /\ Found(label, l)
    BY <2>3, WorkerGoes
  <2> QED
    BY <2>1, <2>2, <2>3
<1>2. Open' = Open /\ Made' = Made
  BY DEF tables, Open, Made
<1>3. Found(label, l)'
  BY <1>1, <1>2 DEF Found, tables
<1>4. Found(pc[w], loc[w])'
  BY <1>1, <1>3 DEF Found
<1>5. Alone(w)'
  BY <1>2, <1>4 DEF Alone, OneOpen, GradedOn, tables
<1> QED
  BY <1>5 DEF Kept, tables

LEMMA BeginsAlone ==
    ASSUME Sound, NEW w, Workers = {w}, Alone(w), Begin(w)
    PROVE  Alone(w)' /\ Kept
<1>0. UNCHANGED tables /\ submission \in Submission
  BY DEF Begin, BeginStart, BeginSubmit, BeginSave, BeginPublish, BeginSubmission,
         BeginGrade, Sound, TypeOK
<1>1. CASE BeginStart(w)
  <2>1. Hold(w, "open", [Blank EXCEPT !.limit = quiz.limit])
    BY <1>1 DEF BeginStart
  <2>2. Found("open", [Blank EXCEPT !.limit = quiz.limit])
    BY DEF Found
  <2> QED
    BY <1>0, <2>1, <2>2, OnlyReads
<1>2. ASSUME NEW n \in Numbers, BeginSubmit(w, n) PROVE Alone(w)' /\ Kept
  <2> DEFINE l == [Blank EXCEPT !.number = n]
  <2>1. Hold(w, "questions", l) /\ n \in Open
    BY <1>2 DEF BeginSubmit, Open
  <2>2. l.number = n
    BY DEF Blank
  <2>3. Found("questions", l)
    BY <2>1, <2>2 DEF Found
  <2> QED
    BY <1>0, <2>1, <2>3, OnlyReads
<1>3. ASSUME NEW n \in Numbers, NEW sheet \in Sent, BeginSave(w, n, sheet)
      PROVE  Alone(w)' /\ Kept
  <2> DEFINE l == [Blank EXCEPT !.number = n, !.sheet = sheet]
  <2>1. Hold(w, "check", l) /\ n \in Open
    BY <1>3 DEF BeginSave, Open
  <2>2. l.number = n
    BY DEF Blank
  <2>3. Found("check", l)
    BY <2>1, <2>2 DEF Found
  <2> QED
    BY <1>0, <2>1, <2>3, OnlyReads
<1>4. CASE BeginPublish(w)
  <2>1. Goto(w, "publish")
    BY <1>4 DEF BeginPublish
  <2>2. Found("publish", loc[w])
    BY DEF Found
  <2> QED
    BY <1>0, <2>1, <2>2, OnlyReads
<1>5. ASSUME NEW body \in Bodies, NEW status \in {"draft", "submitted"},
             BeginSubmission(w, body, status)
      PROVE  Alone(w)' /\ Kept
  <2> DEFINE l == [Blank EXCEPT !.sub = [NoSubmission EXCEPT !.status = status,
                                                             !.body = body]]
  <2>1. Hold(w, "lookup", l)
    BY <1>5 DEF BeginSubmission
  <2>2. Found("lookup", l)
    BY DEF Found
  <2> QED
    BY <1>0, <2>1, <2>2, OnlyReads
<1>6. ASSUME NEW score \in Scores, BeginGrade(w, score) PROVE Alone(w)' /\ Kept
  <2> DEFINE s == [submission EXCEPT !.status = "graded", !.score = score]
             l == [Blank EXCEPT !.sub = s]
  <2>1. Hold(w, "upsert", l)
    BY <1>6 DEF BeginGrade
  <2>2. s.status = "graded" /\ s.body = submission.body
    BY <1>0 DEF Submission
  <2>3. l.sub = s
    BY DEF Blank
  <2>4. Found("upsert", l)
    BY <2>2, <2>3 DEF Found
  <2> QED
    BY <1>0, <2>1, <2>4, OnlyReads
<1> QED
  BY <1>1, <1>2, <1>3, <1>4, <1>5, <1>6 DEF Begin

\* Grading marks every answer it writes.
LEMMA GradedMarked ==
    ASSUME NEW paper, NEW sheet, NEW q \in Questions, Graded(paper, sheet)[q] # NoAnswer
    PROVE  Graded(paper, sheet)[q].mark # "none"
<1>1. ASSUME NEW asked, NEW given PROVE Marked(asked, given).mark # "none"
  BY DEF Marked
<1>2. Graded(paper, sheet)[q] =
        Marked(paper[q], IF sheet[q] = NoAnswer THEN <<>> ELSE sheet[q].given)
  BY DEF Graded
<1> QED
  BY <1>1, <1>2

LEMMA ReadsAlone ==
    ASSUME Sound, NEW w, Workers = {w}, Alone(w),
           \/ FindOpen(w) \/ CountAttempts(w) \/ CheckSave(w)
           \/ ReadQuestions(w) \/ ReadAnswers(w) \/ FindSubmission(w) \/ Abort(w)
    PROVE  Alone(w)' /\ Kept
<1>0. /\ UNCHANGED tables /\ Found(pc[w], loc[w]) /\ loc[w] \in Local
      /\ submission \in Submission
  BY DEF FindOpen, CountAttempts, CheckSave, ReadQuestions, ReadAnswers, FindSubmission,
         Abort, Alone, Sound, TypeOK
<1>1. CASE Finish(w)
  BY <1>0, <1>1, OnlyReads
<1>2. CASE FindOpen(w)
  <2>1. Finish(w) \/ (Goto(w, "count") /\ Open = {})
    BY <1>2 DEF FindOpen
  <2>2. Open = {} => Found("count", loc[w])
    BY DEF Found
  <2> QED
    BY <1>0, <2>1, <2>2, OnlyReads
<1>3. CASE CountAttempts(w)
  <2> DEFINE l == [loc[w] EXCEPT !.number = Cardinality(Made) + 1]
  <2>1. Finish(w) \/ Hold(w, "create", l)
    BY <1>3 DEF CountAttempts
  <2>2. Open = {}
    BY <1>0, <1>3 DEF CountAttempts, Found
  <2>3. Found("create", l)
    BY <2>2 DEF Found
  <2> QED
    BY <1>0, <2>1, <2>3, OnlyReads
<1>4. CASE CheckSave(w)
  <2>1. Finish(w) \/ Goto(w, "clear")
    BY <1>4 DEF CheckSave
  <2>2. Found("clear", loc[w])
    BY <1>0, <1>4 DEF CheckSave, Found
  <2> QED
    BY <1>0, <2>1, <2>2, OnlyReads
<1>5. CASE ReadQuestions(w)
  <2> DEFINE l == [loc[w] EXCEPT !.paper = question]
  <2>1. Hold(w, "answers", l) /\ l.number = loc[w].number
    BY <1>0, <1>5 DEF ReadQuestions, Local
  <2>2. Found("answers", l)
    BY <1>0, <1>5, <2>1 DEF ReadQuestions, Found
  <2> QED
    BY <1>0, <2>1, <2>2, OnlyReads
<1>6. CASE ReadAnswers(w)
  <2> DEFINE g == Graded(loc[w].paper, answers[loc[w].number])
             l == [loc[w] EXCEPT !.sheet = g]
  <2>1. Hold(w, "erase", l) /\ l.number = loc[w].number /\ l.sheet = g
    BY <1>0, <1>6 DEF ReadAnswers, Local
  <2>2. \A q \in Questions : g[q] # NoAnswer => g[q].mark # "none"
    BY GradedMarked
  <2>3. Found("erase", l)
    BY <1>0, <1>6, <2>1, <2>2 DEF ReadAnswers, Found
  <2> QED
    BY <1>0, <2>1, <2>3, OnlyReads
<1>7. CASE FindSubmission(w)
  <2> DEFINE l == [loc[w] EXCEPT !.sub = Rewritten(w)]
  <2>1. Finish(w) \/ (submission.status # "graded" /\ Hold(w, "upsert", l))
    BY <1>7 DEF FindSubmission
  <2>2. submission.status # "graded" => Found("upsert", l)
    BY DEF Found
  <2> QED
    BY <1>0, <2>1, <2>2, OnlyReads
<1> QED
  BY <1>1, <1>2, <1>3, <1>4, <1>5, <1>6, <1>7 DEF Abort

\* ReplaceAll writes the sheet of the only request, and to an attempt in progress.
LEMMA CommitsAlone ==
    ASSUME Sound, NEW w, Workers = {w}, Alone(w), loc[w].number \in Open, CommitAnswers(w)
    PROVE  /\ Open' = Open /\ Made' = Made /\ OneOpen'
           /\ \A n \in Made \ Open : GradedOn(n)'
           /\ unseen'[w] = {}
           /\ \A q \in Questions : answers'[loc[w].number][q] = loc[w].sheet[q]
           /\ Kept
<1>1. UNCHANGED <<attempts, submission>> /\ Open' = Open /\ Made' = Made
  BY DEF CommitAnswers, Open, Made, workTables
<1>2. unseen'[w] = {}
  BY DEF CommitAnswers, InsertedBy
<1>3. answers \in [Numbers -> Sheet] /\ loc[w].number \in Numbers
  BY DEF Sound, TypeOK, Open
<1>4. \A q \in Questions : Replaced(w)[q] = loc[w].sheet[q]
  BY DEF Replaced, Alone
<1>5. /\ answers'[loc[w].number] = Replaced(w)
      /\ \A n \in Numbers : n # loc[w].number => answers'[n] = answers[n]
  BY <1>3 DEF CommitAnswers
<1>6. ASSUME NEW n \in Made \ Open
      PROVE  answers'[n] = answers[n] /\ attempts'[n] = attempts[n]
  BY <1>1, <1>5 DEF Made
<1>7. \A n \in Made \ Open : GradedOn(n)'
  BY <1>6 DEF Alone, GradedOn
<1>8. Kept
  BY <1>1, <1>6 DEF Kept
<1> QED
  BY <1>1, <1>2, <1>4, <1>5, <1>7, <1>8 DEF Alone, OneOpen

LEMMA WritesAlone ==
    ASSUME Sound, NEW w, Workers = {w}, Alone(w),
           CreateAttempt(w) \/ ClearAnswers(w) \/ ReplaceAnswers(w) \/ MarkAnswers(w)
    PROVE  Alone(w)' /\ Kept
<1>0. /\ Found(pc[w], loc[w]) /\ loc[w] \in Local /\ OneOpen
      /\ attempts \in [Numbers -> Attempt] /\ unseen \in [Workers -> SUBSET Questions]
      /\ Open \subseteq Made
  BY DEF Alone, Sound, TypeOK, Open, Made
<1>1. CASE CreateAttempt(w)
  <2> DEFINE k == loc[w].number
  <2>1. Open = {}
    BY <1>0, <1>1 DEF CreateAttempt, Found
  <2>2. pc'[w] = "idle" /\ UNCHANGED <<answers, submission, unseen>>
    BY <1>1, WorkerGoes DEF CreateAttempt, workTables
  <2>3. \A n \in Numbers : attempts'[n] = attempts[n] \/ (n = k /\ n \notin Made)
    BY <1>0, <1>1 DEF CreateAttempt
  <2>4. ASSUME NEW n \in Made PROVE attempts'[n] = attempts[n] /\ n \in Made'
    BY <2>3 DEF Made
  <2>5. ASSUME NEW n \in Open' PROVE n = k
    BY <2>1, <2>3 DEF Open
  <2>6. ASSUME NEW n \in Made' \ Open' PROVE n \in Made \ Open
    <3>1. n \in Numbers /\ attempts'[n].status # "absent"
          /\ attempts'[n].status # "in_progress"
      BY DEF Made, Open
    <3>2. CASE attempts'[n] = attempts[n]
      BY <3>1, <3>2 DEF Made, Open
    <3>3. CASE n = k /\ n \notin Made
      <4>1. attempts' = [attempts EXCEPT ![k].status = "in_progress"]
        BY <1>1, <3>1, <3>3 DEF CreateAttempt
      <4>2. attempts'[k].status = "in_progress"
        BY <1>0, <3>1, <3>3, <4>1 DEF Attempt
      <4> QED
        BY <3>1, <3>3, <4>2
    <3> QED
      BY <2>3, <3>1, <3>2, <3>3
  <2>7. OneOpen'
    BY <2>5 DEF OneOpen
  <2>8. \A n \in Made' \ Open' : GradedOn(n)'
    BY <2>2, <2>4, <2>6 DEF Alone, GradedOn
  <2>9. Kept
    BY <2>2, <2>4 DEF Kept
  <2>10. Found(pc[w], loc[w])'
    BY <2>2 DEF Found
  <2> QED
    BY <2>2, <2>7, <2>8, <2>9, <2>10 DEF Alone
<1>2. CASE ClearAnswers(w)
  <2>1. /\ pc'[w] \in {"replace", "mark"} /\ loc'[w] = loc[w]
        /\ pc'[w] = "mark" => pc[w] = "erase"
        /\ UNCHANGED <<attempts, answers, submission>>
    BY <1>2, WorkerGoes DEF ClearAnswers, quizTables, workTables
  <2>2. unseen'[w] = {} /\ Open' = Open /\ Made' = Made
    BY <1>0, <1>2, <2>1 DEF ClearAnswers, Open, Made
  <2>3. loc[w].number \in Open
    BY <1>0, <1>2 DEF ClearAnswers, Found
  <2>4. pc'[w] = "mark" =>
           \A q \in Questions : loc[w].sheet[q] # NoAnswer => loc[w].sheet[q].mark # "none"
    BY <1>0, <2>1 DEF Found
  <2>5. Found(pc[w], loc[w])'
    BY <2>1, <2>2, <2>3, <2>4 DEF Found
  <2> QED
    BY <2>1, <2>2, <2>5 DEF Alone, OneOpen, GradedOn, Kept
<1>3. CASE ReplaceAnswers(w) /\ UNCHANGED tables
  BY <1>3, OnlyReads DEF ReplaceAnswers
<1>4. CASE ReplaceAnswers(w) /\ CommitAnswers(w)
  <2>1. pc'[w] = "idle" /\ loc[w].number \in Open
    BY <1>0, <1>4, WorkerGoes DEF ReplaceAnswers, Found
  <2>2. Found(pc[w], loc[w])'
    BY <2>1 DEF Found
  <2> QED
    BY <1>4, <2>1, <2>2, CommitsAlone DEF Alone
<1>5. CASE MarkAnswers(w) /\ UNCHANGED tables /\ Finish(w)
  BY <1>5, OnlyReads
<1>6. CASE MarkAnswers(w) /\ CommitAnswers(w) /\ Goto(w, "grade")
  <2>1. pc'[w] = "grade" /\ loc'[w] = loc[w] /\ loc[w].number \in Open
    BY <1>0, <1>6, WorkerGoes DEF MarkAnswers, Found
  <2>2. \A q \in Questions : loc[w].sheet[q] # NoAnswer => loc[w].sheet[q].mark # "none"
    BY <1>0, <1>6 DEF MarkAnswers, Found
  <2>3. /\ Open' = Open
        /\ \A q \in Questions : answers'[loc[w].number][q] = loc[w].sheet[q]
    BY <1>6, <2>1, CommitsAlone
  <2>4. Found(pc[w], loc[w])'
    BY <2>1, <2>2, <2>3 DEF Found
  <2> QED
    BY <1>6, <2>1, <2>4, CommitsAlone DEF Alone
<1> QED
  BY <1>1, <1>2, <1>3, <1>4, <1>5, <1>6 DEF ReplaceAnswers, MarkAnswers

\* attempts.Update closes the only attempt in progress, on the answers just written.
LEMMA GradeAlone ==
    ASSUME Sound, NEW w, Workers = {w}, Alone(w), WriteGrade(w)
    PROVE  Alone(w)' /\ Kept
<1> DEFINE k == loc[w].number
           graded == [status |-> "graded", award |-> Award(loc[w].sheet)]
<1>1. /\ Found("grade", loc[w]) /\ OneOpen
      /\ attempts \in [Numbers -> Attempt]
  BY DEF Alone, Sound, TypeOK, WriteGrade
<1>2. k \in Open /\ k \in Numbers
  BY <1>1 DEF Found, Open
<1>3. pc'[w] = "idle" /\ UNCHANGED <<answers, submission, unseen>>
  BY WorkerGoes DEF WriteGrade, workTables
<1>4. attempts'[k] = graded /\ \A n \in Numbers : n # k => attempts'[n] = attempts[n]
  BY <1>1, <1>2 DEF WriteGrade
<1>5. Open' = {}
  <2> SUFFICES ASSUME NEW n \in Open' PROVE FALSE
    OBVIOUS
  <2>1. n \in Numbers /\ attempts'[n].status = "in_progress"
    BY DEF Open
  <2>2. n # k
    BY <1>4, <2>1
  <2>3. n \in Open
    BY <1>4, <2>1, <2>2 DEF Open
  <2> QED
    BY <1>1, <1>2, <2>2, <2>3 DEF OneOpen
<1>6. ASSUME NEW n \in Made' \ Open' PROVE GradedOn(n)'
  <2>1. CASE n = k
    <3> SUFFICES ASSUME NEW q \in Questions, answers[k][q] # NoAnswer
                 PROVE  /\ answers[k][q].mark # "none"
                        /\ answers[k][q].points = Award(loc[w].sheet)[q]
      BY <1>3, <1>4, <2>1 DEF GradedOn
    <3>1. answers[k][q] = loc[w].sheet[q]
      BY <1>1 DEF Found
    <3>2. loc[w].sheet[q].mark # "none"
      BY <1>1, <3>1 DEF Found
    <3>3. Award(loc[w].sheet)[q] = loc[w].sheet[q].points
      BY <3>1 DEF Award
    <3> QED
      BY <3>1, <3>2, <3>3
  <2>2. CASE n # k
    <3>1. n \in Numbers /\ attempts'[n] = attempts[n] /\ attempts'[n].status # "absent"
      BY <1>4, <2>2 DEF Made
    <3>2. n \in Made \ Open
      BY <1>1, <1>2, <2>2, <3>1 DEF OneOpen, Made
    <3> QED
      BY <1>3, <3>1, <3>2 DEF Alone, GradedOn
  <2> QED
    BY <2>1, <2>2
<1>7. ASSUME NEW n \in Made \ Open PROVE attempts'[n] = attempts[n]
  BY <1>2, <1>4 DEF Made
<1>8. Kept
  BY <1>3, <1>7 DEF Kept
<1>9. Found(pc[w], loc[w])'
  BY <1>3 DEF Found
<1> QED
  BY <1>3, <1>5, <1>6, <1>8, <1>9 DEF Alone, OneOpen

\* Publishing a quiz and writing a submission.
LEMMA OthersAlone ==
    ASSUME Sound, NEW w, Workers = {w}, Alone(w), PublishQuiz(w) \/ UpsertSubmission(w)
    PROVE  Alone(w)' /\ Kept
<1>1. pc'[w] = "idle" /\ UNCHANGED <<attempts, answers, unseen>>
  BY WorkerGoes DEF PublishQuiz, UpsertSubmission, quizTables
<1>2. Open' = Open /\ Made' = Made
  BY <1>1 DEF Open, Made
<1>3. Found(pc[w], loc[w])'
  BY <1>1 DEF Found
<1>4. submission.status = "graded" =>
         submission'.status = "graded" /\ submission'.body = submission.body
  BY DEF PublishQuiz, UpsertSubmission, workTables, Alone, Found
<1> QED
  BY <1>1, <1>2, <1>3, <1>4 DEF Alone, OneOpen, GradedOn, Kept

\* What happens outside the learner's requests removes answers and adds none.
LEMMA OutsideAlone ==
    ASSUME Sound, NEW w, Workers = {w}, Alone(w), Author \/ ChangeEnrollment
    PROVE  Alone(w)' /\ Kept
<1>1. UNCHANGED <<attempts, submission, unseen, pc, loc>>
  BY DEF Author, ChangeEnrollment, AddQuestion, UpdateQuestion, DeleteQuestion,
         UpdateQuiz, PublishAssignment, MoveDeadline, quizTables, workTables
<1>2. Open' = Open /\ Made' = Made
  BY <1>1 DEF Open, Made
<1>3. ASSUME NEW n \in Numbers, NEW q \in Questions
      PROVE  answers'[n][q] \in {answers[n][q], NoAnswer}
  <2>1. ASSUME NEW d \in Questions, DeleteQuestion(d)
        PROVE  answers'[n][q] \in {answers[n][q], NoAnswer}
    <3>1. answers[n] \in Sheet
      BY DEF Sound, TypeOK
    <3>2. answers'[n] = [answers[n] EXCEPT ![d] = NoAnswer]
      BY <2>1 DEF DeleteQuestion
    <3> QED
      BY <3>1, <3>2 DEF Sheet
  <2> QED
    BY <2>1 DEF Author, ChangeEnrollment, AddQuestion, UpdateQuestion,
         UpdateQuiz, PublishAssignment, MoveDeadline, quizTables, workTables
<1>4. Found(pc[w], loc[w])'
  <2>1. Found(pc[w], loc[w])
    BY DEF Alone
  <2>2. loc[w].number \in Open => loc[w].number \in Numbers
    BY DEF Open
  <2>3. ASSUME pc[w] = "grade", NEW q \in Questions
        PROVE  answers'[loc[w].number][q] \in {loc[w].sheet[q], NoAnswer}
    <3>1. answers[loc[w].number][q] \in {loc[w].sheet[q], NoAnswer}
          /\ loc[w].number \in Open
      BY <2>1, <2>3 DEF Found
    <3> QED
      BY <1>3, <2>2, <3>1
  <2> QED
    BY <1>1, <1>2, <2>1, <2>3 DEF Found
<1>5. ASSUME NEW n \in Made \ Open PROVE GradedOn(n)'
  <2>1. GradedOn(n) /\ n \in Numbers
    BY DEF Alone, Made
  <2>2. ASSUME NEW q \in Questions, answers'[n][q] # NoAnswer
        PROVE  answers'[n][q] = answers[n][q]
    BY <1>3, <2>1, <2>2
  <2> QED
    BY <1>1, <2>1, <2>2 DEF GradedOn
<1>6. Kept
  BY <1>1, <1>3 DEF Kept, Made
<1> QED
  BY <1>1, <1>2, <1>4, <1>5, <1>6 DEF Alone, OneOpen

LEMMA InitAlone ==
    ASSUME Init, NEW w, Workers = {w}
    PROVE  Sound /\ Alone(w)
<1>1. pc[w] = "idle" /\ unseen[w] = {}
  BY DEF Init
<1>2. \A n \in Numbers : attempts[n].status = "absent"
  BY DEF Init, NoAttempt
<1>3. Open = {} /\ Made = {}
  BY <1>2 DEF Open, Made
<1>4. Found(pc[w], loc[w])
  BY <1>1 DEF Found
<1> QED
  BY <1>1, <1>3, <1>4, InitSound DEF Alone, OneOpen

LEMMA NextAlone ==
    ASSUME Sound, NEW w, Workers = {w}, Alone(w), [Next]_vars
    PROVE  Sound' /\ Alone(w)' /\ (Kept \/ UNCHANGED vars)
<1>1. Sound'
  BY NextSound
<1>2. CASE Next
  BY <1>1, <1>2, BeginsAlone, ReadsAlone, WritesAlone, GradeAlone, OthersAlone,
     OutsideAlone DEF Next, Step
<1>3. CASE UNCHANGED vars
  <2>1. Open' = Open /\ Made' = Made
    BY <1>3 DEF Open, Made, vars
  <2>2. Found(pc[w], loc[w])'
    BY <1>3, <2>1 DEF Alone, Found, vars
  <2> QED
    BY <1>1, <1>3, <2>1, <2>2 DEF Alone, OneOpen, GradedOn, vars
<1> QED
  BY <1>2, <1>3

\* SubmitAttempt writes the graded answers and the grade in two statements
\* (assessment.go:437, :451), and StartAttempt looks for an attempt in progress before
\* it creates one (:284, :303): with one request at a time, each of which may die,
\* a learner has at most one attempt in progress and a score agrees with the answers
\* under it.
THEOREM SerialAttempts ==
    ASSUME IsFiniteSet(Workers), Cardinality(Workers) = 1
    PROVE  Spec => []AttemptsSound
<1>0. PICK w : Workers = {w}
  BY FS_Singleton
<1>1. Init => Sound /\ Alone(w)
  BY <1>0, InitAlone
<1>2. Sound /\ Alone(w) /\ [Next]_vars => Sound' /\ Alone(w)'
  BY <1>0, NextAlone
<1>3. Sound /\ Alone(w) => AttemptsSound
  <2> SUFFICES ASSUME Sound, Alone(w) PROVE AttemptsSound
    OBVIOUS
  <2>1. Cardinality(Open) <= 1
    <3>1. CASE Open = {}
      BY <3>1, FS_EmptySet
    <3>2. ASSUME NEW n \in Open PROVE Cardinality(Open) <= 1
      <4>1. Open = {n}
        BY <3>2 DEF Alone, OneOpen
      <4>2. Cardinality({n}) = 1
        BY FS_Singleton
      <4> QED
        BY <4>1, <4>2
    <3> QED
      BY <3>1, <3>2
  <2>2. ASSUME NEW n \in Made \ Open, NEW q \in Answered(answers[n])
        PROVE  /\ answers[n][q].mark # "none"
               /\ answers[n][q].points = attempts[n].award[q]
    BY DEF Alone, GradedOn, Answered
  <2> QED
    BY <2>1, <2>2 DEF AttemptsSound
<1> QED
  BY <1>1, <1>2, <1>3, PTL DEF Spec

\* attempts.Update and submissions.Upsert write whole rows, whatever they hold by then
\* (assessment.go:451, :608, :676): with one request at a time, each of which may
\* die, nothing a learner was graded on is written again.
THEOREM SerialGrades ==
    ASSUME IsFiniteSet(Workers), Cardinality(Workers) = 1
    PROVE  Spec => GradesKept
<1>0. PICK w : Workers = {w}
  BY FS_Singleton
<1>1. Init => Sound /\ Alone(w)
  BY <1>0, InitAlone
<1>2. Sound /\ Alone(w) /\ [Next]_vars => Sound' /\ Alone(w)'
  BY <1>0, NextAlone
<1>3. Sound /\ Alone(w) /\ [Next]_vars => [Kept]_vars
  BY <1>0, NextAlone
<1> QED
  BY <1>1, <1>2, <1>3, PTL DEF Spec, GradesKept, Kept
===============================================================================
