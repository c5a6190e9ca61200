SPECIFICATION Spec
CONSTANTS
  wide = wide
  narrow = narrow
  typo = typo
  inner = inner
  other = other
  stranger = stranger
  Unreadable = Unreadable
  Clients <- MCClients
  Entries <- MCEntries
  Members <- MCMembers
  Policies <- MCPolicies
  PartsOf <- MCUnbroken
  Requests = {r1}
  MaxEdits = 2
  MaxPending = 2
INVARIANTS
  BlacklistedAreRefused
