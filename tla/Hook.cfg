SPECIFICATION Spec
CONSTANTS
  Tools = {"Skill", "Read"}
  Names = {"review", "x"}
  EnvConfigs <- MCEnv
  UserConfigs <- MCUser
  ProjectConfigs <- MCProject
  Bad = Bad
  None = None
INVARIANTS
  ProjectOnlyTightens
  StrictestAdmitsOnlyAllowed
  ErrorsFollowOnError
