CONSTANTS
  NoRows = NoRows
  DuplicateKey = DuplicateKey
  ForeignKey = ForeignKey
  Panic = Panic
  Done = Done
  Divergences = {}
  MaxCalls = 4
  Parts = {"accounts", "groups", "templates", "builds", "resources", "site"}
  ShorterParts = {"accounts", "templates", "builds"}
  Users = {1, 2}
  Emails = {"x", "y"}
  Usernames = {"ada", "Ada"}
  Roles = {"owner"}
  LoginTypes = {"oidc"}
  LinkedIDs = {"l1"}
  Keys = {"k1", "k2"}
  Times = {1, 2}
  Expiries = {3, 4}
  Orgs = {11, 12}
  Groups = {21, 22}
  Names = {"a", "A"}
  Allowances = {1, 2}
  IDs = {1, 2}
  Creators = {1, 2}
  Jobs = {1, 2}
  Scopes = {"workspace", "template"}
  Days = {1, 2}
  Owners = {1, 2}
  Templates = {1, 2}
  Costs = {1, 2}
  Types = {"echo"}
  Tags = {"t"}
  Tokens = {1}
  Slugs = {1, 2}
  Values = {"x", "y"}
  Kinds = {"user", "template"}
  LowerOf <- SmallLowerOf
  PartsOf <- SmallPartsOf
  HeldBy <- SmallHeldBy
  RankOf <- SmallRankOf
  NameOf <- SmallNameOf
  TitleOf <- SmallTitleOf
  TemplateOf <- SmallTemplateOf
  Now = 3
  MonthAgo = 2
  OldTimes = {}
  Inactive = 1
  MaxLogID = 4
  SeededJobs <- SmallJobs
  SeededWorkspaces <- SmallWorkspaces
  SeededBuilds <- SmallBuilds
SPECIFICATION Spec
 
PROPERTIES ImplementsSQL
CHECK_DEADLOCK FALSE
