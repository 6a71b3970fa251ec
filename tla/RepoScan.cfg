\* Two advisories that may name either, both or none of two CVEs, two versions of
\* an NVD record: dropped aliases, advisories sharing a CVE, mixed answers, and
\* any number of runs, failures and crashes.
SPECIFICATION Spec
CONSTANTS
  Advisory = {a1, a2}
  Cve = {c1, c2}
  Version = {v1, v2}
  None = None
SYMMETRY Symmetry
INVARIANTS
  AlwaysSavable
PROPERTIES
  AdvanceIsPrinted
  EvidenceForgottenOnAuthority
  SavedIsPrinted
