SPECIFICATION Spec
CONSTANTS
  Handler = {h1, h2}
  Files <- MCFiles
  Loaded = Loaded
  Width = 3
  File <- MCFile
  Forms <- MCForms
  PlanForms <- MCPlanForms
  FirstPlan <- MCFirstPlan
  NoRow = NoRow
  Mixed = Mixed
SYMMETRY Symmetry
INVARIANTS
  TypeOK
  PagesPresentable
  SettingsOfOneForm
  EditNotUndone
  RequestsEnd
  AdminForAllowedNetworks
  CodesEnterable
