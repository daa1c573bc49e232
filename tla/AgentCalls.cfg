SPECIFICATION Spec
CONSTANTS
    Runs = {1, 2}
    Asking = {2}
    Pulls = {1, 2}
    Pulling = {1}
    Attempts = 2
    Creator = Creator
    Member = Member
    Slack = Slack
    Nobody = Nobody
    Shapes <- MCShapes
    MaxFaults = 1
INVARIANTS AcceptedAnswerStands OverRunsAskNothing OutcomeIsOnItsWay PullRequestIsOwn
CHECK_DEADLOCK FALSE
