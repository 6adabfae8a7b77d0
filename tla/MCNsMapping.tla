---------------------------- MODULE MCNsMapping -----------------------------
(***************************************************************************)
(* NsMapping with two OperandRequests of two tenants.  The maps cover a    *)
(* plain one, one for each rule of the validator that breaks only this     *)
(* rule, a namespace that is both target and requester, an own default     *)
(* namespace, and the ways the yaml can fail to parse.                     *)
(***************************************************************************)
EXTENDS NsMapping

MCNamespaces == {"a", "b", "cs1", "cs2", "control", "ibm-common-services"}

To(requestNS, csNs) == [requestNS |-> requestNS, csNs |-> csNs]

Plain == [controlNs |-> "control", defaultCsNs |-> "",
          nsMappingList |-> << To(<<"a">>, "cs1"), To(<<"b">>, "cs2") >>]

MCMaps ==
  { Plain,
    [Plain EXCEPT !.defaultCsNs = "cs2"],
    [Plain EXCEPT !.nsMappingList = << To(<<"b">>, "cs1"), To(<<"a">>, "b") >>],
    [Plain EXCEPT !.nsMappingList = << To(<<"a">>, "cs1"), To(<<"b">>, "cs1") >>],
    [Plain EXCEPT !.nsMappingList = << To(<<"a">>, "cs1"), To(<<"b", "a">>, "cs2") >>],
    [Plain EXCEPT !.controlNs = "a"],
    [Plain EXCEPT !.controlNs = "cs1"],
    [Plain EXCEPT !.defaultCsNs = Malformed],
    [Plain EXCEPT !.controlNs = Malformed],
    Malformed }

MCRefLists ==
  { << "ibm-common-services", "cs2", "", "ibm-common-services" >> }

MCNamespaceOf == [r \in {"r1", "r2"} |-> IF r = "r1" THEN "a" ELSE "b"]
=============================================================================
