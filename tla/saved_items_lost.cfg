SPECIFICATION Spec
CONSTANTS
  Items = {i1}
  Users = {u1}
  Requests = {r1}
  MaxDate = 3
PROPERTY BookmarksOutliveRetention
