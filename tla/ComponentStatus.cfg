\* A Deployment, with and without its Service, a hook and the hook's condition.
SPECIFICATION Spec
CONSTANTS
  Alphabet <- Names
  Ready = "Ready"
  Registrations <- Growing
  HookTypes <- FromHook
INVARIANTS
  TypeOK
  SuccessListsExpected
  SuccessSummarizes
PROPERTIES
  SanitizingKeeps
