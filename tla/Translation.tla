----------------------------- MODULE Translation -----------------------------
(***************************************************************************)
(* One translate request from the moment it passed its limits: the calls   *)
(* of the model API (external), the one further attempt, the cleaning and  *)
(* checking of what the model wrote (translation.py, language_detection.py)*)
(* and what the route that asked makes of it (translate.py, public.py).    *)
(*                                                                         *)
(* A text is known by what the checks look at: its length, the name in its *)
(* salutation, its bracketed placeholders and its sharp s.  What the model *)
(* writes is besides a sequence of parts: the translation, the wrapper     *)
(* tags of the prompt it may echo, and notes (a line that begins with one  *)
(* of the signal phrases, up to the end of that line).                     *)
(***************************************************************************)
EXTENDS Integers, Sequences, SequencesExt

CONSTANTS
    Texts,      \* what users ask for: [len, name, slots, likely]
    Shapes,     \* the sequences of parts the model writes
    Sizes,      \* lengths of the part "body"
    Names,      \* names that appear in salutations
    Slots,      \* placeholders
    Langs,      \* language codes
    None        \* no name, no language

ASSUME TextAssumption ==
    /\ \A t \in Texts : /\ t.len \in Nat /\ t.name \in Names \cup {None}
                        /\ t.slots \subseteq Slots /\ t.likely \in Langs \cup {None}
    /\ Shapes \subseteq Seq({"open", "close", "body", "note"})
    /\ "de" \in Langs /\ None \notin Langs \cup Names

Routes == {"web", "anonymous", "app", "public"}
Accounts == {"web", "public"}     \* the routes that know whom to charge

\* What the model writes: sharp counts the sharp s, and form tells how the
\* answer of an auto-detecting request can be read.
Samples == [shape : Shapes, size : Sizes, sharp : {0, 1}, name : Names \cup {None},
            slots : SUBSET Slots, lang : Langs, form : {"fields", "other", "odd"}]

VARIABLES
    route,     \* who asks: a user of the web client, an anonymous one, the app
               \* without an account, an API key
    text,      \* the text
    target,    \* target_lang
    auto,      \* source_lang == "auto"
    pc,        \* "new", "calling", "recording", "reporting", "failed", "answered"
    calls,     \* calls of the model API
    failure,   \* what failed last
    result,    \* the translation and the detected language
    charged,   \* characters counted for this request
    status     \* the answer

request == <<route, text, target, auto>>
vars == <<request, pc, calls, failure, result, charged, status>>

NoResult == [shape |-> <<>>, len |-> 0, sharp |-> 0, name |-> None, slots |-> {}, lang |-> None]

Init ==
    /\ route \in Routes
    /\ text \in Texts
    /\ target \in Langs
    /\ auto \in BOOLEAN
    /\ pc = "new"
    /\ calls = 0
    /\ failure = "none"
    /\ result = NoResult
    /\ charged = 0
    /\ status = 0
-----------------------------------------------------------------------------
(* Reading and cleaning what the model wrote. *)

\* _WRAPPER_TAG_PATTERN.sub: a tag at the beginning and one at the end.
Unwrap(shape) ==
    LET first == IF shape # <<>> /\ Head(shape) = "open" THEN 2 ELSE 1
        last == IF shape # <<>> /\ Last(shape) = "close" THEN Len(shape) - 1 ELSE Len(shape)
    IN  SubSeq(shape, first, last)

\* _TRAILING_COMMENTARY_PATTERN.sub: from the first note that follows a line
\* break to the end.
CutNotes(shape) ==
    LET notes == {i \in 2 .. Len(shape) : shape[i] = "note"}
    IN  IF notes = {} THEN shape
        ELSE SubSeq(shape, 1, (CHOOSE i \in notes : \A j \in notes : i <= j) - 1)

\* strip_wrapper_tags.
Strip(shape) == CutNotes(Unwrap(Unwrap(shape)))

PartLength(size) == [open |-> 6, close |-> 7, body |-> size, note |-> 20]
Length(shape, size) ==
    FoldLeft(LAMBDA total, part : total + PartLength(size)[part], 0, shape)

\* apply_swiss_orthography: two letters for one, in German only.
Orthography(s) ==
    IF target = "de" THEN [s EXCEPT !.sharp = 0, !.len = @ + s.sharp] ELSE s

\* detect_language.
Guess(t) == IF t.len < 20 THEN None ELSE t.likely

\* validate_llm_detection.
ValidDetection(lang) ==
    IF lang = target /\ Guess(text) \notin {None, target} THEN Guess(text) ELSE lang

\* _parse_auto_detect_response: both fields, by JSON or by pattern, or else
\* the content as it is, taken for German.
DetectedLang(s) ==
    IF ~auto THEN None ELSE ValidDetection(IF s.form = "fields" THEN s.lang ELSE "de")

Stripped(s) ==
    [shape |-> Strip(s.shape), len |-> Length(Strip(s.shape), s.size), sharp |-> s.sharp,
     name |-> s.name, slots |-> s.slots, lang |-> DetectedLang(s)]

Cleaned(s) == Orthography(Stripped(s))

NameChanged(out) == text.name # None /\ out.name # None /\ text.name # out.name
MaxLength == IF text.len * 3 > text.len + 80 THEN text.len * 3 ELSE text.len + 80

\* validate_translation_output, then the guard on the length.
Checked(out) ==
    CASE NameChanged(out) -> "NAME_SUBSTITUTION"
      [] ~NameChanged(out) /\ ~(out.slots \subseteq text.slots) -> "PLACEHOLDER_LEAK"
      [] OTHER -> IF out.len > MaxLength THEN "SUSPICIOUS_OUTPUT" ELSE "none"

\* Mutation: the checks run before the orthography.
VerdictBeforeSpelling(s) == IF auto /\ s.form = "odd" THEN "malformed" ELSE Checked(Stripped(s))

\* Fields of another type than the parser expects raise past every handler.
Verdict(s) == IF auto /\ s.form = "odd" THEN "malformed" ELSE Checked(Cleaned(s))
-----------------------------------------------------------------------------
(* The calls. *)

\* Mutation: usage is recorded before the model is asked.
AcceptAndCharge ==
    /\ pc = "new" /\ pc' = "calling"
    /\ charged' = text.len
    /\ UNCHANGED <<request, calls, failure, result, status>>

\* The anonymous tracker counts the characters of a request it lets through.
Accept ==
    /\ pc = "new" /\ pc' = "calling"
    /\ charged' = IF route = "anonymous" THEN text.len ELSE 0
    /\ UNCHANGED <<request, calls, failure, result, status>>

\* Failures of the call itself; "broken" are the transport errors tried again,
\* "refused" is a status below 500, "not_json" is a ValueError.
CallFailures == {"broken", "timeout", "refused", "server_error", "not_json", "malformed"}
Rejections == {"NAME_SUBSTITUTION", "PLACEHOLDER_LEAK", "SUSPICIOUS_OUTPUT"}

\* The except clauses of translate_text.
TriedAgain(f) == calls = 0 /\ f \in Rejections \cup {"not_json", "broken", "server_error"}

Fail(f) ==
    /\ failure' = f
    /\ pc' = IF TriedAgain(f) THEN "calling" ELSE "failed"
    /\ UNCHANGED result

CallFails ==
    /\ pc = "calling"
    /\ calls' = calls + 1
    /\ \E f \in CallFailures : Fail(f)
    /\ UNCHANGED <<request, charged, status>>

\* _attempt_translation.
CallReturns ==
    /\ pc = "calling"
    /\ calls' = calls + 1
    /\ \E s \in Samples :
         \/ Verdict(s) # "none" /\ Fail(Verdict(s))
         \/ /\ Verdict(s) = "none"
            /\ result' = Cleaned(s)
            /\ failure' = "none"
            /\ pc' = "recording"
    /\ UNCHANGED <<request, charged, status>>

\* record_usage and the commit, for an account; the database may fail.
Record ==
    /\ pc = "recording"
    /\ \/ /\ charged' = IF route \in Accounts THEN text.len ELSE charged
          /\ IF route = "public" THEN pc' = "reporting" /\ UNCHANGED status
                                 ELSE pc' = "answered" /\ status' = 200
          /\ UNCHANGED failure
       \/ /\ route \in Accounts
          /\ failure' = "database" /\ pc' = "failed"
          /\ UNCHANGED <<charged, status>>
    /\ UNCHANGED <<request, calls, result>>

\* After the commit of an API key's request: the meter, whose errors are
\* swallowed, and the alerts, which raise when the month has two usage
\* periods or the database fails.
Report ==
    /\ pc = "reporting"
    /\ \/ pc' = "answered" /\ status' = 200 /\ UNCHANGED failure
       \/ pc' = "failed" /\ failure' = "alerts" /\ UNCHANGED status
    /\ UNCHANGED <<request, calls, result, charged>>

\* The except clauses of the two routes.
StatusOf(f) ==
    CASE f = "SUSPICIOUS_OUTPUT" -> 422
      [] f \in Rejections \ {"SUSPICIOUS_OUTPUT"} -> IF route = "public" THEN 500 ELSE 422
      [] f \in {"broken", "timeout", "refused", "server_error"} ->
            IF route = "public" THEN 500 ELSE 503
      [] OTHER -> 500

AnswerFailure ==
    /\ pc = "failed" /\ pc' = "answered"
    /\ status' = StatusOf(failure)
    /\ UNCHANGED <<request, calls, failure, result, charged>>

Next == Accept \/ CallFails \/ CallReturns \/ Record \/ Report \/ AnswerFailure

Spec == Init /\ [][Next]_vars
-----------------------------------------------------------------------------
TypeOK ==
    /\ route \in Routes /\ text \in Texts /\ target \in Langs /\ auto \in BOOLEAN
    /\ pc \in {"new", "calling", "recording", "reporting", "failed", "answered"}
    /\ calls \in 0 .. 2
    /\ failure \in CallFailures \cup Rejections \cup {"none", "database", "alerts"}
    /\ charged \in {0, text.len}
    /\ status \in {0, 200, 422, 500, 503}

(* What is delivered satisfies every check in the form in which it is       *)
(* delivered, after the first call or the second (translation.py:409-434):  *)
(* the name of the salutation is kept, no placeholder was invented, it is   *)
(* not longer than allowed, a German text has no sharp s, and the source    *)
(* language reported is not the target when the text itself speaks against  *)
(* it (language_detection.py:72-75).                                        *)
DeliveredIsSound ==
    status = 200 =>
        /\ Checked(result) = "none"
        /\ target = "de" => result.sharp = 0
        /\ auto /\ result.lang = target => Guess(text) \in {None, target}

(* "no usage is billed for a failed request" (public.py:318), whichever of  *)
(* the two calls failed in whatever way or if the database did, and one     *)
(* that took two calls is billed once; the anonymous tracker charges what   *)
(* it let through, and nobody the app.  The one failure that is billed is   *)
(* that of the alerts, which come after the commit (public.py:330-349,      *)
(* usage_alerts.py:76, 118): the answer is then 500 for a translation that  *)
(* was charged.                                                             *)
BilledForDelivery ==
    pc = "answered" =>
        LET recorded == route \in Accounts /\ (status = 200 \/ failure = "alerts") IN
        charged = IF route = "anonymous" \/ recorded THEN text.len ELSE 0
=============================================================================
