----------------------------- MODULE RecordRules -----------------------------
(***************************************************************************)
(* Validation and normalization of one record: the issues the rules find,  *)
(* which fields they leave eligible, and what the normalizers make of them.*)
(*                                                                         *)
(* A value is Absent (None) or a text, of which a record keeps what the    *)
(* rules tell apart:                                                       *)
(*   core      what it names, 0 when it is blank                           *)
(*   form      how it is written, of the forms its field knows             *)
(*   outer     the white space around it, in characters                    *)
(*   inner     the white space inside that collapsing takes away           *)
(*   apart     the characters that composing it (NFC) takes away           *)
(*   letters   the length of the trimmed, collapsed and composed text      *)
(*   suffixes  where a legal suffix is found in that text, in a company.   *)
(* Forms: a phone is e164, local, foreign, short or words; an e-mail plain,*)
(* shouted (capitals in the domain), shouted apart (one of them composes   *)
(* with its accent in lower case only) or malformed; a city or district    *)
(* known, alias (known once composed or looked up) or unknown; a company   *)
(* plain or ruined (a suffix was written into its name); others plain.     *)
(*                                                                         *)
(* An operator commented "Broken variant" is a plausible bug of the one    *)
(* that follows it; no specification uses it.                              *)
(***************************************************************************)
EXTENDS Integers, Sequences, FiniteSetsExt

Fields == {"first_name", "last_name", "email", "phone", "company", "city", "district", "address"}
TextFields == Fields \ {"email", "phone"}

Absent == [core |-> 0, form |-> "absent", outer |-> 0, inner |-> 0, apart |-> 0, letters |-> 0, suffixes |-> {}]

Blank(v) == v.core = 0

\* len(value.strip())
Length(v) == v.letters + v.inner + v.apart

\* The keys of company.suffix_mappings, in order: A.S., A.S, AŞ, A. S., A. S, AS, LTD. STI.,
\* LTD STI, LTD. ŞTİ., and what they are replaced by, A.Ş. or Ltd. Şti.
SuffixLength == <<4, 3, 2, 5, 4, 2, 9, 7, 9>>
CanonicalLength == <<4, 4, 4, 4, 4, 4, 9, 9, 9>>

\* A suffix ends the text, as a word or as the tail of one (ATLAS), or follows a space, as
\* a word or as the head of one (ASLAN).  Of two keys at one place the first counts.
Suffixes == [at : Nat, key : 1..9, place : {"end", "tail", "word", "head"}]

Values == [core : Nat, form : STRING, outer : Nat, inner : Nat, apart : Int, letters : Nat,
           suffixes : SUBSET Suffixes]

\* A value of the field f that is the record of some text: collapsing takes white space from
\* between two words only, and what has a syntax or a list of names has no such space.
WellWritten(f, v) ==
  /\ v \in Values /\ IsFiniteSet(v.suffixes)
  /\ Blank(v) <=> v.form \in {"absent", "blank"}
  /\ IF Blank(v) THEN v.letters = 0 /\ Length(v) = 0 /\ v.inner = 0 ELSE v.letters >= 1 /\ Length(v) >= 1
  /\ v.form = "absent" => v = Absent
  /\ v.form \in {"e164", "known"} => v.apart = 0
  /\ v.form = "shouted apart" => v.letters >= 2
  /\ v.inner > 0 => /\ v.letters >= 3 /\ v.form \notin {"e164", "known", "alias"}
                    /\ f = "email" => v.form = "malformed"
  /\ v.suffixes # {} => f = "company" /\ ~ Blank(v)
  /\ \A s, t \in v.suffixes : s.at = t.at => s = t
  /\ \A key \in 1..9 : v.letters >= SuffixLength[key] * Cardinality({s \in v.suffixes : s.key = key})

-----------------------------------------------------------------------------
(* Validation *)

\* defaults.severity of validation.yaml, by rule, and DEFAULT_RULE_ELIGIBILITY.
Severity(rule) ==
  CASE rule \in {"text.max_length", "location.city_known", "location.district_known",
                 "cross_field.city_district"}      -> "warning"
    [] rule = "text.noncanonical_whitespace"       -> "info"
    [] OTHER                                       -> "error"

RuleEligibility(rule) ==
  CASE rule = "required.missing"                                             -> "NOT_APPLICABLE"
    [] rule \in {"text.blank", "text.noncanonical_whitespace"}               -> "SAFE"
    [] rule \in {"email.syntax", "phone.format", "cross_field.city_district"} -> "AMBIGUOUS"
    [] OTHER                                                                 -> "UNSUPPORTED"

\* A number in the national or the international style, or one that at least looks like one.
PhoneEligibility(form) ==
  IF form = "e164" THEN "NOT_APPLICABLE" ELSE IF form \in {"local", "foreign"} THEN "SAFE" ELSE "AMBIGUOUS"

\* One rule each: does the value v of the field f break it?
RequiredMissing(f, v) == Blank(v)

TextBlank(f, v) == f \in TextFields /\ Blank(v) /\ v.form # "absent"

\* text_max_lengths, of the text as it stands.
MaxLength(f) == CASE f = "company" -> 200 [] f = "address" -> 500 [] OTHER -> 100

TextTooLong(f, v) == f \in TextFields /\ ~ Blank(v) /\ Length(v) + v.outer > MaxLength(f)

NoncanonicalWhitespace(f, v) == ~ Blank(v) /\ (v.outer > 0 \/ v.inner > 0)

EmailMalformed(f, v) == f = "email" /\ v.form = "malformed"

NotLikePhone(f, v) == f = "phone" /\ v.form = "words"

NotE164(f, v) == f = "phone" /\ ~ Blank(v) /\ v.form # "e164"

\* MIN_COMPANY_LENGTH and MIN_ADDRESS_LENGTH; no other field has a least length.
MinLength(f) == CASE f = "company" -> 2 [] f = "address" -> 5 [] OTHER -> 0

CompanyTooShort(f, v) == f = "company" /\ ~ Blank(v) /\ Length(v) < MinLength(f)

AddressTooShort(f, v) == f = "address" /\ ~ Blank(v) /\ Length(v) < MinLength(f)

CityUnknown(f, v) == f = "city" /\ ~ Blank(v) /\ v.form # "known"

DistrictUnknown(f, v) == f = "district" /\ ~ Blank(v) /\ v.form # "known"

\* get_registered_rules, but for the rule that looks at two fields.
Rules == {"required.missing", "text.blank", "text.max_length", "text.noncanonical_whitespace",
          "email.syntax", "phone.format", "phone.tr_e164", "company.min_length",
          "address.min_length", "location.city_known", "location.district_known"}

Breaks(f, v, rule) ==
  CASE rule = "required.missing"             -> RequiredMissing(f, v)
    [] rule = "text.blank"                   -> TextBlank(f, v)
    [] rule = "text.max_length"              -> TextTooLong(f, v)
    [] rule = "text.noncanonical_whitespace" -> NoncanonicalWhitespace(f, v)
    [] rule = "email.syntax"                 -> EmailMalformed(f, v)
    [] rule = "phone.format"                 -> NotLikePhone(f, v)
    [] rule = "phone.tr_e164"                -> NotE164(f, v)
    [] rule = "company.min_length"           -> CompanyTooShort(f, v)
    [] rule = "address.min_length"           -> AddressTooShort(f, v)
    [] rule = "location.city_known"          -> CityUnknown(f, v)
    [] rule = "location.district_known"      -> DistrictUnknown(f, v)

\* A district has the number of its city, and only a canonical city has districts.
Mismatched(record) ==
  /\ record["city"].form = "known"
  /\ ~ Blank(record["district"])
  /\ ~ (record["district"].form = "known" /\ record["district"].core = record["city"].core)

Issue(f, v, rule) ==
  [field |-> f, rule |-> rule, severity |-> Severity(rule),
   eligibility |-> IF rule = "phone.tr_e164" THEN PhoneEligibility(v.form) ELSE RuleEligibility(rule)]

\* validate_record
Issues(record) ==
  (UNION {{Issue(f, record[f], rule) : rule \in {r \in Rules : Breaks(f, record[f], r)}} : f \in Fields})
  \cup (IF Mismatched(record)
          THEN {Issue("district", record["district"], "cross_field.city_district")} ELSE {})

Count(issues, severity) == Cardinality({i \in issues : i.severity = severity})

-----------------------------------------------------------------------------
(* Normalization *)

Blocking == {"AMBIGUOUS", "UNSUPPORTED"}

\* Broken variant: every issue blocks, a warning too.
EligibleUnlessAnyIssue(f, issues) ==
  \A i \in issues : i.field = f => i.rule # "required.missing" /\ i.eligibility \notin Blocking

\* field_eligibility_from_validation: only errors stand in the way.
Eligible(f, issues) ==
  \A i \in issues :
    i.field = f /\ i.severity = "error" => i.rule # "required.missing" /\ i.eligibility \notin Blocking

\* text.trim_whitespace, text.collapse_whitespace
Tidied(v) == [v EXCEPT !.outer = 0, !.inner = 0]

\* text.nfc_unicode
Composed(v) == [v EXCEPT !.apart = 0]

\* The lower-case letter and its accent are left apart.
LowerDomain(v) ==
  CASE v.form = "shouted"       -> [v EXCEPT !.form = "plain"]
    [] v.form = "shouted apart" -> [v EXCEPT !.form = "plain", !.apart = 1, !.letters = @ - 1]
    [] OTHER                    -> v

\* A foreign number fails and stays; one of the country has a plus and twelve digits.
ToE164(v) == IF v.form = "local" THEN [v EXCEPT !.form = "e164", !.letters = 13] ELSE v

\* Of the first key that is found, the one that ends the text, else all that follow a space.
Replaced(suffixes) ==
  LET first == {s \in suffixes : s.key = Min({t.key : t \in suffixes})}
      final == {s \in first : s.place \in {"end", "tail"}}
  IN IF final # {} THEN final ELSE first

\* A suffix is replaced inside a name as well.
CanonicalSuffix(v) ==
  LET key == Min({s.key : s \in v.suffixes})
      growth == Cardinality(Replaced(v.suffixes)) * (CanonicalLength[key] - SuffixLength[key])
      ruins == \E s \in Replaced(v.suffixes) : s.place \in {"tail", "head"}
  IN IF v.suffixes = {} THEN v
     ELSE [v EXCEPT !.suffixes = @ \ Replaced(v.suffixes), !.letters = @ + growth,
                    !.form = IF ruins THEN "ruined" ELSE @]

CityAlias(v) == IF v.form = "alias" THEN [v EXCEPT !.form = "known"] ELSE v

DistrictAlias(v) == IF v.form = "alias" THEN [v EXCEPT !.form = "known"] ELSE v

\* FIELD_RULE_ORDER
FieldRules(f, v) ==
  LET text == Composed(Tidied(v)) IN
    CASE f = "email"    -> LowerDomain(text)
      [] f = "phone"    -> ToE164(text)
      [] f = "company"  -> CanonicalSuffix(text)
      [] f = "city"     -> CityAlias(text)
      [] f = "district" -> DistrictAlias(text)
      [] f = "address"  -> Tidied(text)
      [] OTHER          -> text

\* Broken variant: a field that may not be normalized is normalized all the same.
NormalizeFieldAlways(f, v, eligible) == IF v.form = "absent" THEN v ELSE FieldRules(f, v)

NormalizeField(f, v, eligible) == IF eligible /\ v.form # "absent" THEN FieldRules(f, v) ELSE v

\* normalize_record, after the validation before it.
Normalize(record) ==
  [f \in Fields |-> NormalizeField(f, record[f], Eligible(f, Issues(record)))]
=============================================================================
