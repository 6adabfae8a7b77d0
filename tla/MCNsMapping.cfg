CONSTANTS
  Namespaces <- MCNamespaces
  DefaultNs = "ibm-common-services"
  NoNs = ""
  Malformed = Malformed
  Maps <- MCMaps
  RefLists <- MCRefLists
  Requests = {"r1", "r2"}
  NamespaceOf <- MCNamespaceOf
  MaxWrites = 2
  NoRequest = NoRequest
SPECIFICATION Spec
INVARIANTS
  TypeOK
  RoutingIsDeterminate
  TenantsStayApart
  ControlStaysApart
  RedirectsOnlyDefault
  RoutingIsStable
  DenialHasCause
