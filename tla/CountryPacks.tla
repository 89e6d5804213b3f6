----------------------------- MODULE CountryPacks -----------------------------
(***************************************************************************)
(* The country packs (lib/compliance/packs): what each country's seed      *)
(* version says about VAT and withholding, and the day from which it holds.*)
(* Labels, currencies, zakat, invoice fields and e-invoicing notes are     *)
(* left out: no calculation reads them.  Days are yyyymmdd.                *)
(***************************************************************************)
EXTENDS Naturals

Rule(vendor, service, rate) == [vendor |-> vendor, service |-> service, rate |-> rate]  \* in hundredths of a percent

\* categories: the codes the pack lists besides standard_rate, with their rates.
SaudiArabia ==
    [from |-> 20200701, standard |-> 15, categories |-> {<<"zero_rated", 0>>, <<"exempt", 0>>},
     withholding |-> {Rule("non_resident", s, 500) : s \in {"dividends", "interest"}}
                     \cup {Rule("non_resident", "royalties", 1500), Rule("non_resident", "management_fees", 2000)}]

Uae ==
    [from |-> 20180101, standard |-> 5, categories |-> {<<"zero_rated", 0>>, <<"exempt", 0>>},
     withholding |-> {}]

Qatar ==
    [from |-> 20180101, standard |-> 0, categories |-> {},
     withholding |-> {Rule("non_resident", s, 500) : s \in {"services", "royalties", "commissions"}}
                     \cup {Rule("non_resident", "interest", 700), Rule("non_resident", "dividends", 0)}]

Kuwait ==
    [from |-> 20260329, standard |-> 0, categories |-> {},
     withholding |-> {Rule("incorporated_body", "contract_payment", 500)}]

Bahrain ==
    [from |-> 20220101, standard |-> 10, categories |-> {<<"zero_rated", 0>>, <<"exempt", 0>>},
     withholding |-> {}]

Oman ==
    [from |-> 20210416, standard |-> 5, categories |-> {<<"zero_rated", 0>>, <<"exempt", 0>>},
     withholding |-> {Rule("non_resident_no_pe", s, 1000) : s \in {"royalties", "management_fees", "services"}}
                     \cup {Rule("non_resident_no_pe", s, 0) : s \in {"dividends", "interest"}}]

Morocco ==
    [from |-> 20260101, standard |-> 20, categories |-> {<<"reduced_rate", 10>>, <<"exempt", 0>>},
     withholding |-> {Rule("resident_company", "dividends", 1125), Rule("resident_company", "services", 500)}]

CountryCodes == {"SA", "AE", "QA", "KW", "BH", "OM", "MA"}

\* The registry.
Pack(c) == CASE c = "SA" -> SaudiArabia [] c = "AE" -> Uae [] c = "QA" -> Qatar [] c = "KW" -> Kuwait
             [] c = "BH" -> Bahrain [] c = "OM" -> Oman [] c = "MA" -> Morocco

=============================================================================
