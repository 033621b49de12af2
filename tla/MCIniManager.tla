---------------------------- MODULE MCIniManager ----------------------------
(***************************************************************************)
(* A small instance of IniManager: one file, a section and a key in two    *)
(* spellings, a domain that is an octet and one that is not, values with   *)
(* the marks of the format, and texts with a section in two parts, a       *)
(* header that is read as an entry and comments.                           *)
(***************************************************************************)
EXTENDS IniManager, TLC

MCLower == ("PTP" :> "ptp") @@ ("Domain" :> "domain")
MCNumberOf == ("5" :> 5) @@ ("300" :> 300) @@ ("1" :> 1) @@ ("0" :> 0)

MCWords == {"ptp", "PTP", "domain", "Domain", "interface", "logging", "eth0",
            "a", "b", "x", "y", "0.0.0.0", "0", "1", "5", "300"}

MCNames == {<<"ptp">>, <<"PTP">>}
MCKeys == {<<"domain">>, <<"Domain">>, <<"interface">>}
MCValues == {<<"5", "=", "5">>, <<"1", "#", "y">>}

Header(name) == <<"[", name, "]">>
Entry(key, value) == <<key, "=", value>>

MCTexts ==
  {<< Entry("domain", "1"), Header("ptp"), Entry("domain", "5"), <<"interface", "=", "=">>,
      Header("logging"), Header("PTP"), Entry("Domain", "300") \o <<";", "x">> >>,
   << <<"[", "a", "=", "b", "]">>, <<"#", "domain">>, <<>>, <<"=">>, <<"interface">> >>,
   << <<"[">>, Entry("domain", "1"), Header("ptp"), Entry("interface", "eth0"),
      <<";">>, <<"=", "5">> >>}
=============================================================================
