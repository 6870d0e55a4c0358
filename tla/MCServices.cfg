SPECIFICATION Services
CONSTANTS
    Client = {"c1", "c2"}
    Key <- Keys
    Today = 20260727
    Capacity = 1
    Buffer = 1
    MaxChains = 4
    MaxPushes = 1
    Asked = {"NIFTY"}
INVARIANTS
    ContractsCurrent  WorkerOrders 
      HubDelivers NearestAnswered
CHECK_DEADLOCK FALSE
