SPECIFICATION ToolsSpec
CONSTANTS
  m1 = m1
  m2 = m2
  r1 = r1
  r2 = r2
  r3 = r3
  r4 = r4
  phone = phone
  other = other
  h0 = h0
  h1 = h1
  h2 = h2
  Model = {m1, m2}
  Deferred = {m2}
  Runner = {r1, r2, r3, r4}
  Device = {phone, other}
  Hash = {h0, h1, h2}
  Missing = h0
  Source <- MCSource
  MaxEdits = 1
  MaxKills = 1
  Work <- MCWork
  Absent = Absent
  s1 = s1
  s2 = s2
  s3 = s3
  gltf = gltf
  license = license
  pack = pack
  asset = asset
  assetLicense = assetLicense
  coat = coat
  glb = glb
  Stager = {s1, s2, s3}
  Name = {gltf, license, pack, asset, assetLicense, coat, glb}
  Order <- MCOrder
  First = {gltf, pack, asset, coat, glb}
  Pack = {pack}
  Nobody = Nobody
  g1 = g1
  g2 = g2
  g3 = g3
  main = main
  state = state
  model = model
  project = project
  widget = widget
  v1 = v1
  v2 = v2
  Maker = {g1, g2, g3}
  Rendered = {main}
  Copied = {state, model}
  States = {state}
  Project = project
  WidgetTest = widget
  Version = {v1, v2}
  Pinned = v1
  MaxDrift = 1
INVARIANTS
  RootInv
  EvidenceIsCoherent
  StagedFilesAreWhole
  HarnessIsValidated
PROPERTIES
  NothingOverwritten
  KeepsLedger
  CommandsEnd
CHECK_DEADLOCK FALSE
