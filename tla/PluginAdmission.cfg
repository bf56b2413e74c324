\* One process, a WASM plugin with two builds and a Python plugin with two; the
\* operator edits, and restarts the host, at any time.
CONSTANTS
  Process = {broker}
  Plugin = {1, 2}
  Hosted = {1}
  Component = {reads, mutates, own, borrows}
  reads = reads
  mutates = mutates
  own = own
  borrows = borrows
  Describe <- Descriptions
  Trusted = {reads, mutates}
  Sites <- SiteSets
  Files <- CatalogFiles
  None = None
SPECIFICATION Spec
INVARIANTS
  MutationIsHosted
  HostIsLocked
