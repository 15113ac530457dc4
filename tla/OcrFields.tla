----------------------------- MODULE OcrFields -----------------------------
(***************************************************************************)
(* What the OCR stage makes of what it reads: the printed text of the      *)
(* front and the back of a document, line by line, and its machine-        *)
(* readable zone.  A line is the label it bears, if any, and what stands   *)
(* beside it; a name is a sequence of tokens, a token a sequence of words  *)
(* printed with hyphens between them.  Recognizing the text is the         *)
(* business of EasyOCR and PassportEye.                                    *)
(*                                                                         *)
(* Every value is a sequence, the empty one for a value that is missing; a *)
(* date is its year.                                                       *)
(***************************************************************************)
EXTENDS Naturals, Sequences, FiniteSetsExt, SequencesExt

CONSTANTS
  Documents,    \* what there is to read, see DocumentRow
  ThisYear,
  Words         \* that are read

VARIABLES
  paper,        \* the document that is read
  ocrStep,      \* what of it has been read
  fields,       \* the fields so far, with their confidences
  extracted     \* the OcrResult

ocrVars == <<paper, ocrStep, fields, extracted>>

Token == Seq(Words) \ {<<>>}

\* What stands on paper: its ALL-CAPS words, its letters and digits, its date.
Reading == [upper : Seq(Token), clean : Seq(Token), year : Seq(Nat)]

LineRow == [label : STRING, rest : Reading]

ZoneRow ==
  [score : Nat, names : Seq(Token), surname : Seq(Token), optional : Seq(Token),
   number : Seq(Token), birth : Seq(0..99), birthValid : BOOLEAN,
   expiry : Seq(0..99), expiryValid : BOOLEAN, sex : Seq(Token)]

DocumentRow ==
  [type : {"NIC", "PASSPORT"}, front : Seq(LineRow), back : Seq(LineRow), mrz : ZoneRow]

\* The program runs in this century.
ASSUME OcrAssumption ==
  /\ Documents \subseteq DocumentRow
  /\ ThisYear \in 2000..2099
  /\ "caption" \in Words

Keys == {"full_name", "id_number", "date_of_birth", "expiry_date", "place_of_birth",
         "occupation", "sex"}

RequiredFields == {"full_name", "id_number", "expiry_date"}

Blank == [upper |-> <<>>, clean |-> <<>>, year |-> <<>>]

Caption == <<<<"caption">>>>

NoMrz == [score |-> 0, names |-> <<>>, surname |-> <<>>, optional |-> <<>>, number |-> <<>>,
          birth |-> <<>>, birthValid |-> FALSE, expiry |-> <<>>, expiryValid |-> FALSE,
          sex |-> <<>>]

OcrTypeOK ==
  /\ paper.type \in {"NIC", "PASSPORT"}
  /\ ocrStep \in {"none", "front", "back", "zone", "restored", "done"}
  /\ DOMAIN fields \subseteq Keys
  /\ \A k \in DOMAIN fields : fields[k].value # <<>> /\ fields[k].confidence \in {75, 98}
  /\ extracted.success \in BOOLEAN /\ DOMAIN extracted.value = Keys

NoResult == [success |-> FALSE, value |-> [k \in Keys |-> <<>>]]

OcrInit ==
  /\ paper \in Documents
  /\ ocrStep = "none" /\ fields = <<>> /\ extracted = NoResult

-----------------------------------------------------------------------------
(* The printed text.                                                       *)

\* The French surname label is part of the one for given names.
Bearing(label) == IF label = "surname" THEN {"surname", "given"} ELSE {label}

\* A line read as a value, whatever it is.
WholeLine(line) ==
  IF line.label = "none" THEN line.rest
  ELSE [upper |-> Caption, clean |-> Caption \o line.rest.clean, year |-> line.rest.year]

\* What is left of a line behind the label; the pattern for surnames takes the
\* French half of the one for given names and leaves the English half.
Behind(line, label) ==
  IF line.label = label THEN line.rest
  ELSE [upper |-> Caption \o line.rest.upper, clean |-> Caption \o line.rest.clean,
        year |-> line.rest.year]

\* What is printed beside the first such label, or else in the line below.
ValueAfter(lines, label, Readable(_)) ==
  LET labelled == {i \in DOMAIN lines : lines[i].label \in Bearing(label)}
      first == Min(labelled)
  IN CASE labelled = {} -> Blank
       [] labelled # {} /\ Readable(Behind(lines[first], label)) -> Behind(lines[first], label)
       [] labelled # {} /\ ~Readable(Behind(lines[first], label)) ->
            IF first < Len(lines) THEN WholeLine(lines[first + 1]) ELSE Blank

UpperValue(lines, label) ==
  LET HasUpper(item) == item.upper # <<>> IN ValueAfter(lines, label, HasUpper).upper

\* A date or a sex is looked for in the first text, and nowhere else.
CleanValue(lines, label) ==
  LET HasText(item) == item.clean # <<>> IN ValueAfter(lines, label, HasText)

\* The first M or F of a text.
ParseSex(text) ==
  LET told == {i \in DOMAIN text : text[i] \in {<<"M">>, <<"F">>}}
  IN IF told = {} THEN <<>> ELSE text[Min(told)]

\* Only what could be read is set.
SetFields(value, confidence) ==
  [k \in {j \in DOMAIN value : value[j] # <<>>} |->
     [value |-> value[k], confidence |-> confidence]]

ParseFields(lines) ==
  SetFields([full_name      |-> UpperValue(lines, "given") \o UpperValue(lines, "surname"),
             id_number      |-> CleanValue(lines, "id").clean,
             date_of_birth  |-> CleanValue(lines, "birth").year,
             expiry_date    |-> CleanValue(lines, "expiry").year,
             place_of_birth |-> UpperValue(lines, "place"),
             occupation     |-> UpperValue(lines, "occupation"),
             sex            |-> ParseSex(CleanValue(lines, "sex").clean)],
            75)

-----------------------------------------------------------------------------
(* The machine-readable zone: two digits of a year, no hyphens.            *)

\* (Mutant: every date is of this century.)
MrzDateRecent(digits, future) == IF digits = <<>> THEN <<>> ELSE <<2000 + digits[1]>>

MrzDate(digits, future) ==
  IF digits = <<>> THEN <<>>
  ELSE <<(IF future \/ digits[1] <= ThisYear % 100 THEN 2000 ELSE 1900) + digits[1]>>

ReadMrzFields(zone) ==
  IF zone.score < 50 THEN <<>>
  ELSE SetFields(
    [full_name     |-> zone.names \o zone.surname,
     id_number     |-> IF zone.optional # <<>> THEN zone.optional ELSE zone.number,
     date_of_birth |-> IF zone.birthValid THEN MrzDate(zone.birth, FALSE) ELSE <<>>,
     expiry_date   |-> IF zone.expiryValid THEN MrzDate(zone.expiry, TRUE) ELSE <<>>,
     sex           |-> ParseSex(zone.sex)],
    98)

-----------------------------------------------------------------------------
\* (Mutant: what was read last wins a tie.)
PreferLater(base, other) ==
  [k \in DOMAIN base \cup DOMAIN other |->
     IF k \in DOMAIN other
        /\ (k \in DOMAIN base => other[k].confidence >= base[k].confidence)
       THEN other[k] ELSE base[k]]

\* Fill gaps, override only if surer.
Prefer(base, other) ==
  [k \in DOMAIN base \cup DOMAIN other |->
     IF k \in DOMAIN other
        /\ (k \in DOMAIN base => other[k].confidence > base[k].confidence)
       THEN other[k] ELSE base[k]]

\* The hyphenated pairs of a text, in order; of A-B-C the pattern finds A-B.
HyphenatedPairs(lines) ==
  LET Pairs(token) ==
        [i \in 1..Len(token) \div 2 |-> <<token[2 * i - 1], token[2 * i]>>]
      PairsIn(line) == FlattenSeq([t \in DOMAIN line.rest.clean |-> Pairs(line.rest.clean[t])])
  IN FlattenSeq([i \in DOMAIN lines |-> PairsIn(lines[i])])

\* (Mutant: the second token stays behind.)
JoinTwice(tokens, pair) ==
  LET JoinAt(name, i) ==
        IF name[i] = <<pair[1]>> /\ name[i + 1] = <<pair[2]>>
          THEN [name EXCEPT ![i] = pair] ELSE name
  IN FoldLeft(JoinAt, tokens, [i \in 1..Len(tokens) - 1 |-> i])

\* Join two tokens that stand side by side, as often as they do.
Join(tokens, pair) ==
  LET JoinAt(name, i) ==
        IF name[i] = <<pair[1]>> /\ name[i + 1] = <<pair[2]>>
          THEN [name EXCEPT ![i] = pair, ![i + 1] = <<>>] ELSE name
  IN FoldLeft(JoinAt, tokens, [i \in 1..Len(tokens) - 1 |-> i])

\* A token that was joined to the one before it leaves nothing behind.
Kept(name, token) == IF token = <<>> THEN name ELSE Append(name, token)

RestoreNamePunctuation(tokens, lines) ==
  FoldLeft(Kept, <<>>, FoldLeft(Join, tokens, HyphenatedPairs(lines)))

-----------------------------------------------------------------------------
ReadFront ==
  /\ ocrStep = "none" /\ ocrStep' = "front"
  /\ fields' = ParseFields(paper.front)
  /\ UNCHANGED <<paper, extracted>>

\* A passport has no back.
ReadBack ==
  /\ ocrStep = "front" /\ paper.type = "NIC" /\ ocrStep' = "back"
  /\ fields' = Prefer(fields, ParseFields(paper.back))
  /\ UNCHANGED <<paper, extracted>>

ReadZone ==
  /\ ocrStep = (IF paper.type = "NIC" THEN "back" ELSE "front")
  /\ ocrStep' = "zone"
  /\ fields' = Prefer(fields, ReadMrzFields(paper.mrz))
  /\ UNCHANGED <<paper, extracted>>

RestoreName ==
  /\ ocrStep = "zone" /\ ocrStep' = "restored"
  /\ fields' = IF "full_name" \notin DOMAIN fields THEN fields
               ELSE [fields EXCEPT !["full_name"].value =
                       RestoreNamePunctuation(@, paper.front)]
  /\ UNCHANGED <<paper, extracted>>

BuildResult ==
  /\ ocrStep = "restored" /\ ocrStep' = "done"
  /\ extracted' = [success |-> RequiredFields \subseteq DOMAIN fields,
                   value   |-> [k \in Keys |-> IF k \in DOMAIN fields THEN fields[k].value
                                               ELSE <<>>]]
  /\ UNCHANGED <<paper, fields>>

OcrNext == ReadFront \/ ReadBack \/ ReadZone \/ RestoreName \/ BuildResult

OcrSpec == OcrInit /\ [][OcrNext]_ocrVars

-----------------------------------------------------------------------------
\* By source: a trusted zone, then the front, then the back.
BestValue(k) ==
  LET zone == ReadMrzFields(paper.mrz)
      front == ParseFields(paper.front)
      back == ParseFields(paper.back)
  IN CASE k \in DOMAIN zone -> zone[k].value
       [] k \notin DOMAIN zone /\ k \in DOMAIN front -> front[k].value
       [] k \notin DOMAIN zone \cup DOMAIN front
          /\ k \in DOMAIN back /\ paper.type = "NIC" -> back[k].value
       [] OTHER -> <<>>

\* The hyphens of a name: after how many of its words they stand.
Hyphens(name) ==
  LET start(t) == Len(FlattenSeq(SubSeq(name, 1, t - 1)))
  IN UNION {{start(t) + i : i \in 1..Len(name[t]) - 1} : t \in DOMAIN name}

\* The extraction keeps each field's most trusted reading.  The name may gain
\* hyphens, each printed on the front between the same two words, and neither
\* loses nor repeats a word.
BestFieldKept ==
  ocrStep = "done" =>
    /\ \A k \in Keys \ {"full_name"} : extracted.value[k] = BestValue(k)
    /\ LET name == extracted.value["full_name"]
           read == BestValue("full_name")
           words == FlattenSeq(name)
       IN /\ words = FlattenSeq(read)
          /\ Hyphens(read) \subseteq Hyphens(name)
          /\ \A i \in Hyphens(name) \ Hyphens(read) :
               \E l \in DOMAIN paper.front : \E t \in DOMAIN paper.front[l].rest.clean :
                 LET token == paper.front[l].rest.clean[t]
                 IN \E j \in 1..Len(token) - 1 :
                      <<token[j], token[j + 1]>> = <<words[i], words[i + 1]>>
    /\ extracted.success <=> \A k \in RequiredFields : BestValue(k) # <<>>

\* "recent births are not read as a century in the future": no birth date that
\* a document's zone gives is in a later year.
BornBefore ==
  ocrStep = "done" /\ "date_of_birth" \in DOMAIN ReadMrzFields(paper.mrz) =>
    extracted.value["date_of_birth"][1] <= ThisYear

\* What is extracted is the best that could be read.
FieldsRight == BestFieldKept /\ BornBefore

=============================================================================
