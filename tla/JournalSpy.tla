------------------------------ MODULE JournalSpy ------------------------------
(***************************************************************************)
(* The journal spy: a process that reads expressions from a file, follows  *)
(* the systemd journal, and has a report collected when an entry matches   *)
(* one of them, but not more often than its silent period allows.          *)
(***************************************************************************)
EXTENDS SequencesExt, PowerSaving

CONSTANTS
  Fields,       \* journal fields
  Patterns,     \* valid regular expressions
  Invalid,      \* a regular expression that is not
  Silent,       \* SILENT_PERIOD_MS, a quarter of a day
  MaxLines,     \* bound: lines in the file
  MaxHits,      \* bound: matching entries
  MaxTime       \* bound

ASSUME JournalSpyAssumption ==
  /\ Invalid \notin Patterns
  /\ Silent \in Nat \ {0}
  /\ MaxLines \in Nat /\ MaxHits \in Nat /\ MaxTime \in Nat

Day == 4 * Silent

VARIABLES
  file,         \* what is left to read of journalspy-expressions.conf
  spying,       \* the notifier is connected
  expressions,  \* the fields and patterns of each
  lastHit,      \* of each expression; 0, a long time ago, before the first
  now,
  hits          \* history: the entries that matched, see Hit

vars == <<file, spying, expressions, lastHit, now, hits>>

(* ";name" starts an expression and "FIELD=pattern" belongs to one.  Where *)
(* trimmed() makes a difference is a ";name" with spaces before it; other  *)
(* lines are empty, comments, or without a "=".                            *)
Line == [kind : {"name", "indentedName", "other"}]
          \cup [kind : {"field"}, field : Fields, pattern : Patterns \cup {Invalid}]

\* As many patterns as are put in an expression, by field.
Expression == UNION {[fs -> Patterns] : fs \in SUBSET Fields}

NoFields == [f \in {} |-> Invalid]

Hit == [expression : Nat \ {0}, time : Nat, outcome : {"collected", "dropped", "silent"}]

TypeOK ==
  /\ file \in Seq(Line)
  /\ spying \in BOOLEAN
  /\ expressions \in Seq(Expression \ {NoFields})
  /\ lastHit \in [DOMAIN expressions -> Nat]
  /\ now \in Nat
  /\ hits \in Seq(Hit)
  /\ \A n \in DOMAIN hits : hits[n].expression \in DOMAIN expressions

-----------------------------------------------------------------------------
(* The file of expressions                                                 *)

\* An expression without fields is left out.
Finished(s) == IF s.fields = NoFields THEN s.done ELSE Append(s.done, s.fields)

Begin(s) == [open |-> TRUE, fields |-> NoFields, done |-> Finished(s)]

Insert(s, l) == [s EXCEPT !.fields = [f \in DOMAIN @ \cup {l.field} |->
                                        IF f = l.field THEN l.pattern ELSE @[f]]]

\* fault: an invalid pattern ends the expression.
ReadLineGivesUp(s, l) ==
  CASE l.kind = "name" -> Begin(s)
    [] l.kind = "indentedName" /\ ~s.open -> Begin(s)
    [] l.kind = "field" /\ s.open /\ l.pattern = Invalid ->
         [s EXCEPT !.open = FALSE, !.fields = NoFields]
    [] l.kind = "field" /\ s.open /\ l.field \notin DOMAIN s.fields -> Insert(s, l)
    [] OTHER -> s

(* loadExpressions() until the first name, parsePattern() from there on,   *)
(* which looks at the next character before it trims the line.             *)
ReadLine(s, l) ==
  CASE l.kind = "name" -> Begin(s)
    [] l.kind = "indentedName" /\ ~s.open -> Begin(s)
    [] l.kind = "field" /\ s.open /\ l.field \notin DOMAIN s.fields /\ l.pattern # Invalid ->
         Insert(s, l)
    [] OTHER -> s

NothingRead == [open |-> FALSE, fields |-> NoFields, done |-> <<>>]

LoadExpressions(lines) ==
  LET read[n \in 0..Len(lines)] ==         \* n lines of the file
        IF n = 0 THEN NothingRead ELSE ReadLine(read[n - 1], lines[n])
  IN  Finished(read[Len(lines)])

-----------------------------------------------------------------------------
(* The process                                                             *)

Init ==
  /\ file \in UNION {[1..n -> Line] : n \in 0..MaxLines}
  /\ spying = FALSE
  /\ expressions = <<>> /\ lastHit = <<>>
  /\ now = 2 * Silent
  /\ hits = <<>>

(* The constructor.  Without an expression, or with a journal that cannot  *)
(* be followed, the process goes on and spies on nothing.                  *)
Start ==
  /\ file # <<>>
  /\ expressions' = LoadExpressions(file)
  /\ lastHit' = [e \in DOMAIN expressions' |-> 0]
  /\ file' = <<>>
  /\ spying' \in {expressions' # <<>>, FALSE}
  /\ UNCHANGED <<now, hits>>

(* A journal entry as the expressions see it: the patterns its fields      *)
(* match.  A field an entry does not have matches nothing.                 *)
Entries == SUBSET (Fields \X Patterns)

Matches(e, entry) == \A f \in DOMAIN expressions[e] : <<f, expressions[e][f]>> \in entry

\* Only the first expression that matches is hit.
IsHit(e, entry) == Matches(e, entry) /\ \A d \in 1..(e - 1) : ~Matches(d, entry)

(* Whether a collection starts: any battery and restrictions, and the      *)
(* helper that makes the report may not be there.                          *)
Starts == {~ShouldSavePower(b, r) : b \in Battery, r \in Restrictions} \cup {FALSE}

\* fault: a hit that is not reported leaves lastHit alone.
HandleEntryForgets(e) ==
  LET quiet == now - lastHit[e] > Silent
  IN /\ lastHit' = IF quiet THEN [lastHit EXCEPT ![e] = now] ELSE lastHit
     /\ \E starts \in Starts :
          hits' = Append(hits, [expression |-> e, time |-> now,
                                outcome |-> IF ~quiet THEN "silent"
                                            ELSE IF starts THEN "collected" ELSE "dropped"])

(* The loop of handleJournalEntries() for one entry: each hit prolongs the *)
(* silence of the expression, whether it is reported or not.               *)
HandleEntry(e) ==
  LET quiet == now - lastHit[e] > Silent
  IN /\ lastHit' = [lastHit EXCEPT ![e] = now]
     /\ \E starts \in Starts :
          hits' = Append(hits, [expression |-> e, time |-> now,
                                outcome |-> IF ~quiet THEN "silent"
                                            ELSE IF starts THEN "collected" ELSE "dropped"])

(* An entry that matches nothing is passed over.  When sd_journal_next()   *)
(* fails, the loop looks at the entry it stands at once more: any entry    *)
(* may follow any, itself included.                                        *)
HandleJournalEntries ==
  /\ spying /\ Len(hits) < MaxHits
  /\ \E entry \in Entries, e \in DOMAIN expressions : IsHit(e, entry) /\ HandleEntry(e)
  /\ UNCHANGED <<file, spying, expressions, now>>

Tick ==
  /\ spying /\ now < MaxTime
  /\ now' = now + 1
  /\ UNCHANGED <<file, spying, expressions, lastHit, hits>>

Next == Start \/ HandleJournalEntries \/ Tick

Spec == Init /\ [][Next]_vars

-----------------------------------------------------------------------------
(* Properties                                                              *)

(* What the file says, put without reading it line by line: the lines that *)
(* start an expression, and the first valid pattern of each field between  *)
(* one of them and the next.                                               *)
Headings(lines) == {i \in DOMAIN lines : lines[i].kind \in {"name", "indentedName"}}

\* The lines between heading i and the next that have a valid pattern.
Valid(lines, i) ==
  {j \in DOMAIN lines : /\ j > i /\ \A k \in Headings(lines) : k <= i \/ k > j
                        /\ lines[j].kind = "field" /\ lines[j].pattern # Invalid}

FirstOfEach(lines, valid) ==
  [f \in {lines[j].field : j \in valid} |-> lines[Min({j \in valid : lines[j].field = f})].pattern]

Written(lines, i) == FirstOfEach(lines, Valid(lines, i))

\* Headings that are not at the beginning of their line, the first excepted.
Indented(lines) ==
  {i \in Headings(lines) : lines[i].kind = "indentedName" /\ \E j \in Headings(lines) : j < i}

\* Those and the ones before them: the code runs their fields together.
Blurred(lines) ==
  Indented(lines) \cup
    {i \in Headings(lines) : \E k \in Indented(lines) :
       i < k /\ \A h \in Headings(lines) : h <= i \/ h >= k}

(* Each expression is of a heading, in their order; one that is not        *)
(* blurred has what is written there, and is there if that is anything.    *)
Watches(list, lines) ==
  \E place \in [DOMAIN list -> Headings(lines) \ Indented(lines)] :
    /\ \A m, n \in DOMAIN list : m < n => place[m] < place[n]
    /\ \A i \in Headings(lines) \ Blurred(lines) :
         Written(lines, i) # NoFields => \E n \in DOMAIN list : place[n] = i
    /\ \A n \in DOMAIN list :
         /\ list[n] # NoFields
         /\ place[n] \notin Blurred(lines) => list[n] = Written(lines, place[n])

(* An expression written in the file is watched for, with the first valid  *)
(* pattern of each field, in the order of the file; a bad pattern, an      *)
(* empty expression or a misplaced line harms no other.  Only a ";name"    *)
(* with spaces before it harms the expression it follows                   *)
(* (loadExpressions, parsePattern).                                        *)
LoadsWhatIsWritten == [][Start => Watches(expressions', file)]_vars

(* journalspy.h: "No more than 4 matches per expression each day."  Of     *)
(* five collections for an expression the last comes more than a day after *)
(* the first, however the hits fall (handleJournalEntries).                *)
AtMostFourPerDay ==
  \A a, b, c, d, e \in DOMAIN hits :
    /\ a < b /\ b < c /\ c < d /\ d < e
    /\ \A n \in {a, b, c, d, e} : /\ hits[n].outcome = "collected"
                                  /\ hits[n].expression = hits[a].expression
    => hits[e].time - hits[a].time > Day

(* A hit goes unreported for its frequency if and only if the same         *)
(* expression was hit before within the silent period: one expression does *)
(* not silence another, and a steady stream of hits stays silent until it  *)
(* pauses (handleJournalEntries).                                          *)
SilentIffRecent ==
  \A n \in DOMAIN hits :
    hits[n].outcome = "silent" <=>
      \E m \in 1..(n - 1) : /\ hits[m].expression = hits[n].expression
                            /\ hits[n].time - hits[m].time <= Silent
=============================================================================
