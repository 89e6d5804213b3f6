------------------------------- MODULE TaxRules -------------------------------
(***************************************************************************)
(* The tax rules of one company: its profile (lib/compliance/profile.ts),  *)
(* the published versions (publish.ts), its overrides of one setting, the  *)
(* standard VAT rate (overrides.ts), and what is calculated from them      *)
(* (engine.ts).  publishNewRuleVersion has no caller, so a country's only  *)
(* versions are copies of its pack.                                        *)
(*                                                                         *)
(* A creation of an override is two steps: the reads of its transaction,   *)
(* and its writes with the unique index.                                   *)
(***************************************************************************)
EXTENDS CountryPacks, FiniteSets, Absent

CONSTANTS
  Countries,  \* the countries the company chooses among
  Days,
  Rates,      \* values of overrides
  TaxOverrides,
  Calculations,
  MaxSwitches \* bound on changes of the profile

ASSUME CountriesSupported == Countries \subseteq CountryCodes
ASSUME NoneIsNoOverride == None \notin Days \cup TaxOverrides

Categories == {"standard_rate", "zero_rated", "exempt", "out_of_scope", "reduced_rate", "reverse_charge"}

VARIABLES
  profile,    \* the country of the compliance profile
  published,  \* countries with a published version
  switches,
  ostate,     \* of each override: "none", "reading" (its transaction is open), "active", "reset", "failed"
  country, since, until, value,  \* the row, or the request while it is not inserted
  prior,      \* the override the request will close
  kstep, kday, kcategory, kcountry, kused, krate  \* calculations

overridevars == <<ostate, country, since, until, value, prior>>
calcvars == <<kstep, kday, kcategory, kcountry, kused, krate>>
taxVars == <<profile, published, switches, overridevars, calcvars>>

TaxInit ==
    /\ profile = None /\ published = {} /\ switches = 0
    /\ ostate = [i \in TaxOverrides |-> "none"] /\ country = [i \in TaxOverrides |-> None]
    /\ since = [i \in TaxOverrides |-> 0] /\ until = [i \in TaxOverrides |-> None] /\ value = [i \in TaxOverrides |-> 0]
    /\ prior = [i \in TaxOverrides |-> None]
    /\ kstep = [k \in Calculations |-> "idle"] /\ kday = [k \in Calculations |-> 0]
    /\ kcategory = [k \in Calculations |-> None] /\ kcountry = [k \in Calculations |-> None]
    /\ kused = [k \in Calculations |-> None] /\ krate = [k \in Calculations |-> None]

-----------------------------------------------------------------------------
\* ensureInitialRuleVersion, and then the profile in a transaction of its own.
Publish(c) ==
    /\ published' = published \cup {c}
    /\ UNCHANGED <<profile, switches, overridevars, calcvars>>
SetProfile(c) ==
    /\ c \in published /\ switches < MaxSwitches
    /\ profile' = c /\ switches' = switches + 1
    /\ UNCHANGED <<published, overridevars, calcvars>>

\* resolveEffectiveRuleVersion finds a version of country c for the day.
HasVersion(c, day) == c \in published /\ Pack(c).from <= day

Active == {i \in TaxOverrides : ostate[i] = "active"}
Open == {i \in Active : until[i] = None}

\* Mutant: an override of any country.
PriorAnywhere(c) == Active

\* runCreateOverride's query for the override to close: the first of these, in no stated order.
PriorCandidates(c) == {j \in Active : country[j] = c}

\* POST /overrides, which looks for the rules of the profile it reads, and the reads of
\* runCreateOverride, which reads the profile again.  The given window is not looked at.
BeginOverride(i, from, to, v) ==
    /\ ostate[i] = "none" /\ profile # None /\ \E c \in published : HasVersion(c, from)
    /\ ostate' = [ostate EXCEPT ![i] = "reading"]
    /\ country' = [country EXCEPT ![i] = profile]
    /\ since' = [since EXCEPT ![i] = from] /\ until' = [until EXCEPT ![i] = to] /\ value' = [value EXCEPT ![i] = v]
    /\ \E j \in IF PriorCandidates(profile) = {} THEN {None} ELSE PriorCandidates(profile) :
         prior' = [prior EXCEPT ![i] = j]
    /\ UNCHANGED <<profile, published, switches, calcvars>>

\* The unique index: one open active override of a country.
Conflicts(i) == until[i] = None /\ \E j \in Open \ {prior[i]} : country[j] = country[i]

\* The prior override's window is closed, whatever it is, and the new one inserted; or nothing is.
InsertOverride(i) ==
    /\ ostate[i] = "reading"
    /\ IF Conflicts(i)
       THEN ostate' = [ostate EXCEPT ![i] = "failed"] /\ until' = until
       ELSE /\ ostate' = [ostate EXCEPT ![i] = "active"]
            /\ until' = IF prior[i] = None THEN until ELSE [until EXCEPT ![prior[i]] = since[i]]
    /\ UNCHANGED <<profile, published, switches, country, since, value, prior, calcvars>>

\* resetOverride: conditional on status = 'active'.
Reset(i) ==
    /\ ostate[i] = "active"
    /\ ostate' = [ostate EXCEPT ![i] = "reset"]
    /\ UNCHANGED <<profile, published, switches, country, since, until, value, prior, calcvars>>

-----------------------------------------------------------------------------
(* calculateTax.                                                           *)

Covers(i, day) == since[i] <= day /\ (until[i] = None \/ until[i] > day)

\* Mutant: the override's country is not compared.
MatchingAnywhere(c, day) == {i \in Active : Covers(i, day)}

\* getEffectiveSettingValue's WHERE clause, and the latest of what it finds.
Matching(c, day) == {i \in Active : country[i] = c /\ Covers(i, day)}
InForce(c, day) == {i \in Matching(c, day) : \A j \in Matching(c, day) : since[j] <= since[i]}

Finish(k, rate) == kstep' = [kstep EXCEPT ![k] = "done"] /\ krate' = [krate EXCEPT ![k] = rate]

\* The rate of a category that is not the standard one; None asks for a review.
CategoryRate(c, category) ==
    IF category \in {"zero_rated", "exempt", "out_of_scope"} THEN 0
    ELSE IF \E e \in Pack(c).categories : e[1] = category
         THEN (CHOOSE e \in Pack(c).categories : e[1] = category)[2]
         ELSE None

\* The profile and the version.
Resolve(k, day, category) ==
    /\ kstep[k] = "idle"
    /\ kday' = [kday EXCEPT ![k] = day] /\ kcategory' = [kcategory EXCEPT ![k] = category]
    /\ kcountry' = [kcountry EXCEPT ![k] = profile]
    /\ IF profile = None \/ ~HasVersion(profile, day) THEN Finish(k, None)
       ELSE IF category = "standard_rate" THEN kstep' = [kstep EXCEPT ![k] = "override"] /\ krate' = krate
       ELSE Finish(k, CategoryRate(profile, category))
    /\ UNCHANGED <<profile, published, switches, overridevars, kused>>

\* getWithholdingRate: no rule of the pack is for every service, and a pack without rules withholds nothing.
WithholdingRate(c, vendor, service) ==
    IF Pack(c).withholding = {} THEN 0
    ELSE IF \E r \in Pack(c).withholding : r.vendor = vendor /\ r.service = service
         THEN (CHOOSE r \in Pack(c).withholding : r.vendor = vendor /\ r.service = service).rate
         ELSE None

Withhold(k, day, vendor, service) ==
    /\ kstep[k] = "idle"
    /\ kday' = [kday EXCEPT ![k] = day] /\ kcategory' = [kcategory EXCEPT ![k] = "withholding"]
    /\ kcountry' = [kcountry EXCEPT ![k] = profile]
    /\ Finish(k, IF profile = None \/ ~HasVersion(profile, day) THEN None ELSE WithholdingRate(profile, vendor, service))
    /\ UNCHANGED <<profile, published, switches, overridevars, kused>>

\* The override, or the pack's rate.
ApplyOverride(k) ==
    /\ kstep[k] = "override"
    /\ IF InForce(kcountry[k], kday[k]) = {}
       THEN Finish(k, Pack(kcountry[k]).standard) /\ kused' = kused
       ELSE \E i \in InForce(kcountry[k], kday[k]) : Finish(k, value[i]) /\ kused' = [kused EXCEPT ![k] = i]
    /\ UNCHANGED <<profile, published, switches, overridevars, kday, kcategory, kcountry>>

-----------------------------------------------------------------------------
TaxNext ==
    \/ \E c \in Countries : Publish(c) \/ SetProfile(c)
    \/ \E i \in TaxOverrides :
         \/ \E from \in Days, to \in Days \cup {None}, v \in Rates : BeginOverride(i, from, to, v)
         \/ InsertOverride(i) \/ Reset(i)
    \/ \E k \in Calculations :
         \/ \E day \in Days, category \in Categories : Resolve(k, day, category)
         \/ \E day \in Days, s \in {"royalties", "services"} : Withhold(k, day, "non_resident", s)
         \/ ApplyOverride(k)

TaxSpec == TaxInit /\ [][TaxNext]_taxVars

-----------------------------------------------------------------------------
(***************************************************************************)
(* A calculation never mixes countries, whatever happens to the profile    *)
(* while it runs: an override it used was made for the country whose       *)
(* version it used.                                                        *)
(***************************************************************************)
CountriesNotMixed == \A k \in Calculations : kused[k] # None => country[kused[k]] = kcountry[k]

(***************************************************************************)
(* What a country's overrides say is untouched by an override made for     *)
(* another country: after switching back, the old one applies again.       *)
(***************************************************************************)
OtherCountryUntouched ==
    [][\A i \in TaxOverrides, c \in Countries, day \in Days :
         ostate[i] = "reading" /\ ostate'[i] = "active" /\ country[i] # c => InForce(c, day)' = InForce(c, day)]_taxVars

(***************************************************************************)
(* However many creations race, a country has one open override at most.   *)
(***************************************************************************)
OneOpenOverride == \A i, j \in Open : country[i] = country[j] => i = j

(***************************************************************************)
(* "A historical lookup for a date before the change still finds the old   *)
(* value" (overrides.ts): a new override changes what is in force from its *)
(* own day on only.                                                        *)
(***************************************************************************)
PastRatesFixed ==
    [][\A i \in TaxOverrides, day \in Days :
         ostate[i] = "reading" /\ ostate'[i] = "active" /\ day < since[i]
         => \A c \in {country[i]} : InForce(c, day)' = InForce(c, day)]_taxVars

=============================================================================
