SPECIFICATION Spec
CONSTANTS
  Callers = {"a"}
  Depositors = {"d"}
  Before = 2
  BeforeDeposits = 1
  Asked = {"", "PROPOSAL_STATUS_DEPOSIT_PERIOD"}
PROPERTY
  FilteredByStatus
