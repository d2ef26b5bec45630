----------------------------- MODULE MCPipeline -----------------------------
(***************************************************************************)
(* Inputs for the stages of Pipeline, a few of every kind that the code    *)
(* treats differently.                                                     *)
(***************************************************************************)
EXTENDS Pipeline, MCReviewLedger

-----------------------------------------------------------------------------
(* Files *)

Line(cells, delimiters, quote) == [cells |-> cells, delimiters |-> delimiters, quote |-> quote]

Commas(cells) == Line(cells, {","}, "none")

\* 11 and 12 are names of columns, 21 and on texts, 0 and 1 empty and white space.
HeaderLines == {Commas(<<11, 12>>), Commas(<<11, 1>>), Commas(<<11, 11>>), Commas(<<11, 12, 0>>),
                Line(<<11, 12>>, {";"}, "none"), Line(<<11, 12>>, {",", ";"}, "none"),
                Line(<<11, 12>>, {","}, "opens"), Line(<<>>, {}, "none"), Line(<<11>>, {}, "none")}

DataLines == {Line(<<>>, {}, "none"), Commas(<<0, 0>>), Commas(<<21, 22>>), Commas(<<21, 1>>),
              Line(<<21>>, {}, "none"), Commas(<<21, 22, 23>>), Line(<<21, 22>>, {";"}, "none"),
              Line(<<21, 22>>, {","}, "opens"), Line(<<21, 22>>, {","}, "stray"),
              Line(<<21, 22>>, {",", ";"}, "none")}

LinesOfFiles == {<<>>} \cup {<<h>> : h \in HeaderLines} \cup {<<h, d>> : h \in HeaderLines, d \in DataLines}
                \cup {<<Commas(<<11, 12>>), c, d, e>> : c, d, e \in DataLines}
                \cup {<<Line(<<11, 12>>, {";"}, "none"), c, d>> : c, d \in DataLines}

File(format, size, coding, lines) ==
  [format |-> format, exists |-> TRUE, size |-> size, coding |-> coding, lines |-> lines]

MCSources ==
  {File(format, "fits", "plain", lines) : format \in {"csv", "xlsx"}, lines \in LinesOfFiles}
  \cup {File("csv", size, coding, <<h>>) : size \in {"fits", "empty", "large"},
                                            coding \in {"marked", "latin"}, h \in HeaderLines}
  \cup {File("json", "fits", "plain", <<>>)}

-----------------------------------------------------------------------------
(* Columns *)

\* A header like a field by the given percentages, and by thirty to any other.
Header(alias, likeness, shares, contains, ambiguous) ==
  [alias |-> alias, shares |-> shares, contains |-> contains, edge |-> contains # {}, ambiguous |-> ambiguous,
   similarity |-> likeness @@ [f \in {"address", "city", "company", "district", "email", "first_name",
                                      "last_name", "phone"} |-> 30]]

Unlike == <<>>

\* "email", "phone", "contact_email", "name", "column_7", "value".
Headers == {Header("email", "email" :> 100, {"email"}, {}, FALSE),
            Header("phone", "phone" :> 100, {}, {}, FALSE),
            Header("none", "email" :> 80, {"email"}, {"email"}, FALSE),
            Header("none", "first_name" :> 57 @@ "last_name" :> 61, {"first_name", "last_name"}, {}, TRUE),
            Header("none", Unlike, {}, {}, FALSE), Header("none", Unlike, {}, {}, TRUE)}

FirstHeaders == {h \in Headers : h.alias # "phone" /\ (h.similarity["email"] > 30 \/ h.ambiguous)}

Cell(kind, id) == [kind |-> kind, id |-> id]
NullCell == Cell("null", 0)

Cells == {<<Cell(k, 1), Cell(k, 2)>> : k \in {"email", "phone", "digits", "count", "text"}}
         \cup {<<NullCell, NullCell>>, <<Cell("email", 1), NullCell>>,
               <<Cell("email", 1), Cell("text", 2)>>, <<Cell("text", 1), Cell("text", 1)>>}

\* Seven rows, one of them not an e-mail address: between the two pattern thresholds.
\* Nine rows are longer than the sample: only the whole of them is below the lower one.
MostlyEmail(last) == [i \in 1..7 |-> IF i < 7 THEN Cell("email", i) ELSE last]
LastCells == {Cell("email", 7), Cell("text", 7), NullCell}
EmailAtFirst(last) == MostlyEmail(last) \o <<Cell("text", 8), Cell("text", 9)>>

MCSheets ==
  {<<[header |-> g, cells |-> c], [header |-> h, cells |-> d]>> : g \in FirstHeaders, h \in Headers, c, d \in Cells}
  \cup {<<[header |-> h, cells |-> <<Cell(k, 1)>>]>> : h \in Headers, k \in {"email", "phone", "text"}}
  \cup {<<[header |-> h, cells |-> cells]>> :
          h \in Headers, cells \in {MostlyEmail(c) : c \in LastCells} \cup {EmailAtFirst(c) : c \in LastCells}}

-----------------------------------------------------------------------------
(* Records *)

Records == INSTANCE RecordRules

AllFields == {"first_name", "last_name", "email", "phone", "company", "city", "district", "address"}

Text(core, form, letters) ==
  [core |-> core, form |-> form, outer |-> 0, inner |-> 0, apart |-> 0, letters |-> letters, suffixes |-> {}]

GoodForm(f) == CASE f = "phone" -> "e164" [] f \in {"city", "district"} -> "known" [] OTHER -> "plain"

GoodRecord == [f \in AllFields |-> Text(1, GoodForm(f), 13)]

FormsOf(f) ==
  CASE f = "phone"                -> {"e164", "local", "foreign", "short", "words"}
    [] f = "email"                -> {"plain", "shouted", "shouted apart", "malformed"}
    [] f = "company"              -> {"plain", "ruined"}
    [] f \in {"city", "district"} -> {"known", "alias", "unknown"}
    [] OTHER                      -> {"plain"}

\* Around the limits of the lengths.
LettersOf(f) ==
  CASE f = "company" -> {1, 2, 200} [] f = "address" -> {2, 3, 4, 5, 499, 500}
    [] f \in Records!TextFields -> {9, 100} [] OTHER -> {13}

\* The same text with white space around it, inside it, and its accents set apart or one
\* letter that composing splits in two.
Loosened(texts) ==
  {[v EXCEPT !.outer = outer, !.inner = inner, !.apart = apart] :
     v \in texts, outer \in {0, 1}, inner \in {0, 2}, apart \in {-1, 0, 1}}

Blanks == {Records!Absent, Text(0, "blank", 0), [Text(0, "blank", 0) EXCEPT !.outer = 2]}

\* District 2 lies in city 2.
ValuesOf(f) ==
  Blanks \cup {v \in Loosened({Text(core, form, letters) : core \in IF f = "district" THEN {1, 2} ELSE {1},
                                                         form \in FormsOf(f), letters \in LettersOf(f)}) :
                 Records!WellWritten(f, v)}

\* A few of each form, to be combined.
ShortList(f) == {v \in ValuesOf(f) : v.letters \in {0, 2, 9, 13} /\ v.inner = 0 /\ v.apart \in {0, 1}}

Suffix(at, key, place) == [at |-> at, key |-> key, place |-> place]

\* A.S., A. S., AS and LTD STI, alone and with another one.
SuffixSets ==
  {{Suffix(20, key, place)} : key \in {1, 4, 6, 8}, place \in {"end", "tail", "word", "head"}}
  \cup {{Suffix(6, key, place), Suffix(20, 6, last)} :
          key \in {1, 6, 8}, place \in {"word", "head"}, last \in {"end", "tail", "word"}}

Companies == {[Text(1, "plain", 30) EXCEPT !.suffixes = found, !.apart = apart] : found \in SuffixSets, apart \in {0, 1}}
             \cup {[Text(1, "plain", letters) EXCEPT !.suffixes = {Suffix(0, key, "end")}] :
                     key \in {6}, letters \in {2, 199}}

MCFiles ==
  {<<[GoodRecord EXCEPT !["city"] = c, !["district"] = d]>> : c \in ShortList("city"), d \in ShortList("district")}
  \cup {<<[GoodRecord EXCEPT !["phone"] = p, !["company"] = c], GoodRecord>> :
          p \in ShortList("phone"), c \in ShortList("company")}
  \cup {<<[GoodRecord EXCEPT !["company"] = c]>> : c \in Companies}
  \cup UNION {{<<[GoodRecord EXCEPT ![f] = v]>> : v \in ValuesOf(f)} : f \in AllFields}

-----------------------------------------------------------------------------
(* Batches *)

Row(id, email, phone, name, place) ==
  [source |-> id, values |-> [email |-> email, phone |-> phone, first_name |-> name, last_name |-> name,
                              company |-> name, city |-> place, district |-> place,
                              address |-> place]]

\* Two addresses, two phones that end alike, two spellings of one name, no name.
People == {<<0, 0, 11, 11>>, <<11, 0, 11, 11>>, <<11, 11, 11, 11>>, <<11, 21, 12, 11>>, <<21, 11, 12, 11>>,
           <<21, 0, 11, 21>>, <<0, 11, 0, 11>>, <<0, 31, 11, 11>>, <<11, 0, 0, 0>>, <<2, 5, 11, 11>>,
           <<21, 31, 21, 21>>}

RowOf(id, p) == Row(id, p[1], p[2], p[3], p[4])

MCBatches ==
  {<<RowOf(2, p), RowOf(1, q), RowOf(3, r)>> : p, q, r \in People}
  \cup {<<RowOf(1, p), RowOf(4, q), RowOf(3, r), RowOf(2, s)>> :
          p, q, r, s \in {<<11, 0, 11, 11>>, <<11, 11, 11, 11>>, <<21, 11, 11, 11>>, <<0, 11, 11, 11>>}}
  \cup {<<RowOf(i, p), RowOf(0, q), RowOf(i, r)>> : i \in {0, 7}, p, q, r \in {<<11, 0, 11, 11>>, <<21, 0, 11, 21>>}}
  \cup {<<>>, <<[source |-> 1, values |-> [person_id |-> 11, email |-> 11]]>>}

-----------------------------------------------------------------------------
(* Resolutions *)

Rated(core, form, marks, length) == Text(core, form, length) @@ [marks |-> marks, length |-> length]

RatedRecord == [f \in AllFields |-> Rated(1, GoodForm(f), {}, 6)]

Phones == {Rated(0, "absent", {}, 0), Rated(1, "e164", {}, 13), Rated(1, "local", {}, 11),
           Rated(2, "e164", {}, 13), Rated(3, "short", {}, 0)}
RatedCompanies == {Rated(0, "absent", {}, 0), Rated(0, "blank", {}, 0), Rated(1, "plain", {}, 9),
              Rated(1, "plain", {"merged or duplicate"}, 18), Rated(2, "tiny", {}, 1),
              Rated(2, "long", {"hyphens"}, 30)}
Places == {<<"known", 1>>, <<"known", 2>>, <<"alias", 2>>}

Member(source, phone, company, place) ==
  [source |-> source,
   values |-> [RatedRecord EXCEPT !["phone"] = phone, !["company"] = company,
                                  !["city"] = Rated(1, place[1], {}, 3),
                                  !["district"] = Rated(place[2], "known", {}, 3)]]

\* A cluster in conflict, one with a contradicted MATCH, one that waits for a review.
Groupings ==
  {[clusters |-> {[id |-> <<"C", 1>>, members |-> {1, 2}, conflict |-> TRUE]}, excluded |-> {},
    cases |-> {[id |-> 12, pair |-> <<1, 2>>, status |-> "MATCH"]}],
   [clusters |-> {[id |-> <<"HR", 1>>, members |-> {1, 2, 3}, conflict |-> FALSE]}, excluded |-> {},
    cases |-> {[id |-> 12, pair |-> <<1, 2>>, status |-> "MATCH"],
               [id |-> 13, pair |-> <<1, 3>>, status |-> "NO_MATCH"]}],
   [clusters |-> {[id |-> <<"C", 1>>, members |-> {1, 2}, conflict |-> FALSE]}, excluded |-> {2, 3},
    cases |-> {}]}

Resolution(members, g) ==
  [records |-> members, clusters |-> g.clusters, excluded |-> g.excluded, cases |-> g.cases]

Usual == Rated(1, "e164", {}, 13)
UsualName == Rated(1, "plain", {}, 9)
Home == <<"known", 1>>

MCResolutions ==
  {Resolution(<<Member("source_a", p, c, Home), Member("source_b", q, d, Home), Member("source_c", p, d, Home)>>, g) :
     p, q \in Phones, c, d \in RatedCompanies, g \in Groupings}
  \cup {Resolution(<<Member("source_a", Usual, UsualName, k), Member("source_b", Usual, UsualName, l),
                     Member("other", Usual, UsualName, m)>>, g) : k, l, m \in Places, g \in Groupings}
=============================================================================
