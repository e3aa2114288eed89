SPECIFICATION PipeSpec
CONSTANTS
  Nothing = Nothing
  NotYet = NotYet
  NoPoint = NoPoint
  Arrivals <- MCArrivals
  Damages <- MCDamages
  MarketRequests <- MCMarketRequests
  BLOCK = 2
  ASOF = 10
  Requests <- MCRequests
  Campaigns <- MCCampaigns
  Platforms = {"cpu", "tpu"}
  Bookings <- MCBookings
  DateGrids <- MCDateGrids
  THETA_DAYS = 1
  GridOptions <- MCGridOptions
  GridDays <- MCGridDays
  EXERCISE_STEPS = 2
  Calibrated <- MCCalibrated
  HelperNeeds = {0, 2, 4, 7, 12}
  REFERENCE_GRID <- MCReferenceGrid
  LegShapes <- MCLegShapes
  SIGMA_FLOOR = 1
  SIGMA_CEILING = 3
  RootProblems <- MCRootProblems
  WIDENING <- MCWidening
  RootPoints <- MCRootPoints
  NEAR = 3
  NOISE = 1
  Unsent = Unsent
  RevaluationJobs <- MCRevaluationJobs
  Studies <- MCStudies
  STABLE_TAIL = 2
  Books <- MCBooks
  BASEL_DAY = 5
  Bodies <- MCBodies
  CHUNK_BYTES = 5
  Sizes <- MCSizes
  Lost = Lost
INVARIANTS
  ResultIsOfOneExport
  OutcomesAgree
  AcceptedRunsAsAsked
  PolicyIsKept
  OneContract
  InductionIsOrdered
  CalibrationReprices
  ShiftsKeepTheirLabel
  TailFiguresHold
  ProfilesHold
  WireKeepsBoth
CHECK_DEADLOCK FALSE
