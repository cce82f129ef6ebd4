SPECIFICATION AdmissionSpec
CONSTANTS
  None = None
  Odd = Odd
  Number <- TwoTexts
  hundred = hundred
  dollar = dollar
  s1 = s1
  s2 = s2
  local = local
  remote = remote
  main = main
  code = code
  workflow = workflow
  lock = lock
  Files <- ThreeFiles
  Traits <- FileTraits
  Configs <- SixConfigs
  Requests <- FiveRequests
  Action = {"create_pr", "push"}
  Configured <- TwoSecrets
  HasApiKey = TRUE
  Answers <- ThreeAnswers
  Costs <- TwoCosts
  Trees <- SomeTrees
  MaxEdits = 1
INVARIANT
  RulesSeeTheTask
CHECK_DEADLOCK FALSE
